---- MODULE Spec2Model ----
(***************************************************************************)
(* GRC (Groq Code Assistant): the orchestration engine.                    *)
(*                                                                         *)
(*   - ContextManager      src/src/context-manager.js                      *)
(*   - processUserMessage  src/unnamed/part_001 (the two-tier agent loop)  *)
(*   - startChat           src/unnamed/part_001 (the readline 'line'       *)
(*                         handler that starts Turns and runs commands)    *)
(*                                                                         *)
(* Encoding of values.                                                     *)
(*   A file path is a positive integer.  A line of shell output is an      *)
(*   integer: k > 0 is a line that holds path k and one of the extensions  *)
(*   the Context Manager looks for, 0 is a blank line, k < 0 is a line     *)
(*   without such an extension (a directory header).                       *)
(*   A model response is abstracted to what the loop computes from it:     *)
(*   whether content is null, whether it includes 'TASK COMPLETE', whether *)
(*   the prose includes '## Summary', and the directives the parser        *)
(*   returns for it.                                                       *)
(***************************************************************************)
EXTENDS Integers, Sequences, FiniteSets, TLC

(***************************************************************************)
(* Bounds of the model (not program constants).                            *)
(***************************************************************************)
\* Longest directory listing / glob result a tool returns.
MaxListing == 16
\* Tool executions recorded in one request before the driver of the Context
\* Manager starts a new one.
MaxLog == 2
\* In the agent loop, the model asks for registered tools only while the Turn
\* has made fewer tool-provider calls than this.
MaxToolTurns == 1
\* The user's input: at most MaxLines lines (messages or the clear command),
\* each entered while the session log holds at most MaxSession entries.
\* A caller of the Context Manager alone adds user messages to the session
\* log while it holds fewer than MaxSession entries.
MaxLines == 2
MaxSession == 1
\* Messages handed to the model selector have at most MaxWords words and come
\* with at most MaxToolCalls prior tool calls.
MaxWords == 2
MaxToolCalls == 2
\* Texts handed to the tool parser are made of at most MaxPieces pieces, or
\* are the rendering of at most MaxDirectives directives.
MaxPieces == 3
MaxDirectives == 2
\* Where the calls on the Context Manager are recorded, at most MaxCalls calls
\* are made between two clears, and at most MaxOtherCalls of them are not the
\* read of a new path.
MaxCalls == 11
MaxOtherCalls == 1
\* Where the model clients are driven through their interface, a client's
\* history holds at most MaxHistory messages and at most MaxPending of its
\* chat calls are awaiting the provider.
MaxHistory == 3
MaxPending == 1

(***************************************************************************)
(* Program constants.                                                      *)
(***************************************************************************)
FilesFoundCap == 15
FilesReadCap == 10
FilesFailedCap == 5
RecentResultsCap == 2
maxIterations == 25
checkStopEveryN == 5
\* "iterationCount > 3": the exploration floor of the forced switch
MinExploration == 3

\* args.file_path of a directive that carries no file_path attribute
Undefined == 0

\* The one path Read directives name (besides a missing file_path).
Paths == {1}

UserTexts == {"review"}

\* toolExecutors: the registry
ToolRegistry == {"Read", "Write", "Edit", "Bash", "Glob", "Grep"}

\* The Turns that can be in flight at once: the 'line' handler is async and
\* is not awaited, so a second processUserMessage can start while one runs.
TurnIds == {1, 2}

VARIABLES
    contextManager,  \* the session's ContextManager instance
    turns,           \* TurnIds -> the locals of that call of processUserMessage
    linesRead,       \* the number of input lines the 'line' handler has taken
    lightHistory,    \* lightClient.conversationHistory, by the roles of its messages
    selection,       \* a call of the model selector: its arguments and results
    parsing,         \* a call of the tool parser: its text and results
    cmCalls,         \* the calls made on the Context Manager since it was
                     \* constructed or last cleared (history, not program state)
    session          \* the two model clients of a chat session, each by the
                     \* roles of its conversationHistory and its pending calls

vars == <<contextManager, turns, linesRead, lightHistory, selection, parsing, cmCalls, session>>

(***************************************************************************)
(* Helpers on sequences.                                                   *)
(***************************************************************************)
Min(a, b) == IF a < b THEN a ELSE b

\* Array.prototype.slice(0, n)
SliceFirst(s, n) == SubSeq(s, 1, Min(Len(s), n))

\* Array.prototype.shift(): the array without its first element
Shift(s) == SubSeq(s, 2, Len(s))

(***************************************************************************)
(* Tool results (src/src/tools.js).                                        *)
(***************************************************************************)
\* line.trim().length > 0 && (line.includes('.java') || ... '.xml')
IsSourceLine(line) == line > 0

\* output.split('\n').filter(line => ...): the lines that name a source file
RECURSIVE FilterSourceLines(_)
FilterSourceLines(ls) ==
    IF ls = <<>> THEN <<>>
    ELSE IF IsSourceLine(Head(ls)) THEN <<Head(ls)>> \o FilterSourceLines(Tail(ls))
         ELSE FilterSourceLines(Tail(ls))

Failure(err) ==
    [success |-> FALSE, error |-> err, lines |-> <<>>, files |-> <<>>]

\* executeBash: combined output, split on '\n'
BashOutput(ls) ==
    [success |-> TRUE, error |-> "", lines |-> ls, files |-> <<>>]

\* executeGlob: the matching files
GlobFiles(fs) ==
    [success |-> TRUE, error |-> "", lines |-> <<>>, files |-> fs]

\* executeRead / executeWrite / executeEdit / executeGrep succeeding
Success == [success |-> TRUE, error |-> "", lines |-> <<>>, files |-> <<>>]

\* The output of a recursive listing that shows n source files: a header
\* line, the n paths, a blank line.
Listing(n) ==
    [i \in 1..(n + 2) |-> IF i = 1 THEN 0 - 1 ELSE IF i = n + 2 THEN 0 ELSE i - 1]

\* n absolute paths
FileList(n) == [i \in 1..n |-> i]

ListingSizes == {0, MaxListing}

(***************************************************************************)
(* Model selection (src/src/model-selector.js).  A message is the sequence *)
(* of its characters.                                                      *)
(***************************************************************************)
\* MODELS, lines 6-23
MODELS ==
    [HEAVY |-> [primary |-> "openai/gpt-oss-120b",
                fallback |-> "llama-3.3-70b-versatile",
                experimental |-> "meta-llama/llama-4-maverick-17b-128e-instruct"],
     LIGHT |-> [primary |-> "openai/gpt-oss-20b",
                fallback |-> "llama-3.1-8b-instant",
                experimental |-> "meta-llama/llama-4-scout-17b-16e-instruct"]]

\* A model id a user passes with --model; it is none of the ids selectModel
\* picks from MODELS.
UserModels == {"groq/compound"}

\* null: no user preference
NoPreference == "null"

UpperCase ==
    <<"A", "B", "C", "D", "E", "F", "G", "H", "I", "J", "K", "L", "M",
      "N", "O", "P", "Q", "R", "S", "T", "U", "V", "W", "X", "Y", "Z">>

LowerCase ==
    <<"a", "b", "c", "d", "e", "f", "g", "h", "i", "j", "k", "l", "m",
      "n", "o", "p", "q", "r", "s", "t", "u", "v", "w", "x", "y", "z">>

\* The lower-case letter of each upper-case letter
LowerOf ==
    [c \in {UpperCase[k] : k \in 1..Len(UpperCase)} |->
        LowerCase[CHOOSE k \in 1..Len(UpperCase) : UpperCase[k] = c]]

\* String.prototype.toLowerCase()
toLowerCase(s) ==
    [i \in 1..Len(s) |-> IF s[i] \in DOMAIN LowerOf THEN LowerOf[s[i]] ELSE s[i]]

\* String.prototype.includes(part)
includes(s, part) ==
    \E i \in 1..(Len(s) - Len(part) + 1) :
        \A j \in 1..Len(part) : s[i + j - 1] = part[j]

\* message.split('\n').length
LineCount(s) == 1 + Cardinality({i \in 1..Len(s) : s[i] = "\n"})

\* Lines 32-37
complexKeywords ==
    {<<"i", "m", "p", "l", "e", "m", "e", "n", "t">>,
     <<"c", "r", "e", "a", "t", "e">>,
     <<"b", "u", "i", "l", "d">>,
     <<"d", "e", "s", "i", "g", "n">>,
     <<"r", "e", "f", "a", "c", "t", "o", "r">>,
     <<"d", "e", "b", "u", "g">>,
     <<"f", "i", "x", " ", "b", "u", "g">>,
     <<"o", "p", "t", "i", "m", "i", "z", "e">>,
     <<"a", "l", "g", "o", "r", "i", "t", "h", "m">>,
     <<"a", "r", "c", "h", "i", "t", "e", "c", "t", "u", "r", "e">>,
     <<"s", "y", "s", "t", "e", "m">>,
     <<"c", "o", "m", "p", "l", "e", "x">>,
     <<"e", "x", "p", "l", "a", "i", "n", " ", "w", "h", "y">>,
     <<"a", "n", "a", "l", "y", "z", "e">>,
     <<"r", "e", "v", "i", "e", "w">>,
     <<"i", "m", "p", "r", "o", "v", "e">>,
     <<"e", "n", "h", "a", "n", "c", "e">>}

\* Lines 40-44
simpleKeywords ==
    {<<"r", "e", "a", "d">>,
     <<"s", "h", "o", "w">>,
     <<"l", "i", "s", "t">>,
     <<"f", "i", "n", "d">>,
     <<"s", "e", "a", "r", "c", "h">>,
     <<"w", "h", "a", "t", " ", "i", "s">>,
     <<"w", "h", "e", "r", "e", " ", "i", "s">>,
     <<"d", "i", "s", "p", "l", "a", "y">>,
     <<"p", "r", "i", "n", "t">>,
     <<"v", "i", "e", "w">>,
     <<"c", "h", "e", "c", "k">>,
     <<"g", "e", "t">>,
     <<"f", "e", "t", "c", "h">>}

\* Line 72: the thresholds of the length heuristic
LongMessage == 200
ManyLines == 5

\* Line 54
ModifyingTools == {"Write", "Edit"}
\* Line 59
ReadingTools == {"Read", "Glob", "Grep"}

\* A prior tool call {function: {name}}; function may be missing.
ToolCall(n) == [function |-> [defined |-> TRUE, name |-> n]]
ToolCallWithoutFunction == [function |-> [defined |-> FALSE, name |-> ""]]

\* Lines 47-60
hasComplexKeyword(message) ==
    \E keyword \in complexKeywords : includes(toLowerCase(message), keyword)

hasSimpleKeyword(message) ==
    \E keyword \in simpleKeywords : includes(toLowerCase(message), keyword)

hasCodeModification(toolCalls) ==
    \E i \in DOMAIN toolCalls :
        toolCalls[i].function.defined /\ toolCalls[i].function.name \in ModifyingTools

\* Array.prototype.every: true of an empty array
onlyReading(toolCalls) ==
    \A i \in DOMAIN toolCalls :
        toolCalls[i].function.defined /\ toolCalls[i].function.name \in ReadingTools

\* Lines 72-77: the length heuristic and the default
LengthHeuristic(message) ==
    IF Len(message) > LongMessage \/ LineCount(message) > ManyLines
    THEN "complex" ELSE "simple"

\* analyzeTaskComplexity that looks for a simple keyword first.
analyzeTaskComplexitySimpleFirst(message, toolCalls) ==
    IF hasSimpleKeyword(message) \/ onlyReading(toolCalls) THEN "simple"
    ELSE IF hasCodeModification(toolCalls) \/ hasComplexKeyword(message) THEN "complex"
    ELSE LengthHeuristic(message)

\* analyzeTaskComplexity(message, toolCalls), lines 28-78
analyzeTaskComplexity(message, toolCalls) ==
    IF hasCodeModification(toolCalls) \/ hasComplexKeyword(message) THEN "complex"
    ELSE IF hasSimpleKeyword(message) \/ onlyReading(toolCalls) THEN "simple"
    ELSE LengthHeuristic(message)

\* selectModel that consults the user's preference last.
selectModelPreferenceLast(message, toolCalls, userPreference, useExperimental) ==
    LET complexity == analyzeTaskComplexity(message, toolCalls)
    IN IF complexity = "complex"
       THEN (IF useExperimental THEN MODELS.HEAVY.experimental ELSE MODELS.HEAVY.primary)
       ELSE IF userPreference # NoPreference THEN userPreference
       ELSE (IF useExperimental THEN MODELS.LIGHT.experimental ELSE MODELS.LIGHT.primary)

\* selectModel(message, toolCalls, userPreference, useExperimental), lines 83-100
selectModel(message, toolCalls, userPreference, useExperimental) ==
    IF userPreference # NoPreference THEN userPreference
    ELSE LET complexity == analyzeTaskComplexity(message, toolCalls)
         IN IF useExperimental
            THEN (IF complexity = "complex"
                  THEN MODELS.HEAVY.experimental ELSE MODELS.LIGHT.experimental)
            ELSE (IF complexity = "complex"
                  THEN MODELS.HEAVY.primary ELSE MODELS.LIGHT.primary)

\* startChat, part_001 lines 73-84: the models of the two clients
startChat(model, options) ==
    LET useAutoModel    == options.autoModel
        useExperimental == options.experimental
    IN [lightModel |-> "llama-3.1-8b-instant",
        heavyModel |->
            IF useAutoModel
            THEN selectModel(<<"c", "o", "m", "p", "l", "e", "x", " ", "r", "e", "a", "s",
                               "o", "n", "i", "n", "g", " ", "t", "a", "s", "k">>,
                             <<>>, NoPreference, useExperimental)
            ELSE IF model = "auto" THEN "llama-3.3-70b-versatile" ELSE model]

\* The words messages are made of, joined by single spaces.
Repeat(c, n) == [i \in 1..n |-> c]

Words ==
    {<<"R", "e", "a", "d">>,
     <<"r", "e", "v", "i", "e", "w">>,
     <<"h", "e", "l", "l", "o">>,
     <<"f", "i", "x">>,
     <<"b", "u", "g">>,
     Repeat("x", LongMessage \div 2),
     Repeat("x", LongMessage \div 2 - 1),
     <<"a", "\n", "b", "\n", "c">>,
     <<"a", "\n", "b", "\n", "c", "\n", "d">>}

RECURSIVE Join(_)
Join(ws) ==
    IF ws = <<>> THEN <<>>
    ELSE IF Len(ws) = 1 THEN ws[1]
    ELSE ws[1] \o <<" ">> \o Join(Tail(ws))

Messages == {Join(ws) : ws \in UNION {[1..n -> Words] : n \in 0..MaxWords}}

PriorToolCalls ==
    UNION {[1..n -> {ToolCall("Write"), ToolCall("Read"), ToolCall("Bash"),
                     ToolCallWithoutFunction}] : n \in 0..MaxToolCalls}

\* No call of the selector has been made.
NoSelection ==
    [call |-> "none", message |-> <<>>, toolCalls |-> <<>>,
     userPreference |-> NoPreference, useExperimental |-> FALSE,
     model |-> "auto", autoModel |-> TRUE,
     complexity |-> "none", selected |-> "none", heavyModel |-> "none"]

\* The arguments of a call of analyzeTaskComplexity / selectModel
SelectorQueries ==
    {[NoSelection EXCEPT !.call = "selectModel", !.message = m, !.toolCalls = tcs,
                         !.userPreference = p, !.useExperimental = e] :
        m \in Messages, tcs \in PriorToolCalls,
        p \in UserModels \cup {NoPreference}, e \in BOOLEAN}

\* The command line of a start: --model, --no-auto-model, --experimental
StartupQueries ==
    {[NoSelection EXCEPT !.call = "startChat", !.model = m, !.autoModel = a,
                         !.useExperimental = e] :
        m \in UserModels \cup {"auto"}, a \in BOOLEAN, e \in BOOLEAN}

(***************************************************************************)
(* Tool parser (src/src/config.js lines 70-126; index.js requires it as    *)
(* './tool-parser').  A text is the sequence of its characters.            *)
(***************************************************************************)
\* \s
Spaces == {" ", "\t", "\n"}

IsSpace(c) == c \in Spaces

\* \w
WordChars ==
    {UpperCase[k] : k \in 1..Len(UpperCase)} \cup {LowerCase[k] : k \in 1..Len(LowerCase)}
    \cup {"0", "1", "2", "3", "4", "5", "6", "7", "8", "9", "_"}

IsWordChar(c) == c \in WordChars

\* ["']
Quotes == {"\"", "'"}

\* The first index from `from` on whose character is in S; 0 if there is none.
FirstIndex(s, from, S) ==
    IF \E k \in from..Len(s) : s[k] \in S
    THEN CHOOSE k \in from..Len(s) : s[k] \in S /\ \A j \in from..(k - 1) : s[j] \notin S
    ELSE 0

\* The index after the longest run from `from` of characters in S (greedy +).
RunEnd(s, from, S) ==
    IF \E k \in from..Len(s) : s[k] \notin S
    THEN CHOOSE k \in from..Len(s) : s[k] \notin S /\ \A j \in from..(k - 1) : s[j] \in S
    ELSE Len(s) + 1

\* String.prototype.trim()
trim(s) ==
    IF \A k \in 1..Len(s) : IsSpace(s[k]) THEN <<>>
    ELSE SubSeq(s, CHOOSE k \in 1..Len(s) : ~IsSpace(s[k]) /\ \A j \in 1..(k - 1) : IsSpace(s[j]),
                   CHOOSE k \in 1..Len(s) : ~IsSpace(s[k]) /\ \A j \in (k + 1)..Len(s) : IsSpace(s[j]))

\* The literal that opens a directive
ToolMarker == <<"<", "t", "o", "o", "l">>

\* /<tool\s+([^>]+?)\/>/ tried at index i.  [^>] cannot pass a '>', so the
\* match ends at the first '>' after the white space, which must follow a
\* '/' and leave at least one character for the group; \s+ is greedy and
\* gives back one character when it has taken all of them.
ToolRegexAt(text, i) ==
    LET close == FirstIndex(text, i + Len(ToolMarker) + 1, {">"})
        run   == RunEnd(text, i + Len(ToolMarker), Spaces)
        from  == IF run <= close - 2 THEN run ELSE close - 2
    IN IF /\ i + Len(ToolMarker) <= Len(text)
          /\ SubSeq(text, i, i + Len(ToolMarker) - 1) = ToolMarker
          /\ IsSpace(text[i + Len(ToolMarker)])
          /\ close >= i + Len(ToolMarker) + 3
          /\ text[close - 1] = "/"
       THEN [found |-> TRUE, last |-> close, group |-> SubSeq(text, from, close - 2)]
       ELSE [found |-> FALSE, last |-> 0, group |-> <<>>]

\* /(\w+)=["']([^"']+)["']/ tried at index p
AttrRegexAt(s, p) ==
    LET eq    == RunEnd(s, p, WordChars)
        close == FirstIndex(s, eq + 2, Quotes)
    IN IF /\ IsWordChar(s[p])
          /\ eq + 1 <= Len(s)
          /\ s[eq] = "="
          /\ s[eq + 1] \in Quotes
          /\ close >= eq + 3
       THEN [found |-> TRUE, last |-> close,
             key |-> SubSeq(s, p, eq - 1), value |-> SubSeq(s, eq + 2, close - 1)]
       ELSE [found |-> FALSE, last |-> 0, key |-> <<>>, value |-> <<>>]

\* attributes[match[1]] = match[2]
SetAttribute(attributes, key, value) ==
    {a \in attributes : a.key # key} \cup {[key |-> key, value |-> value]}

\* parseAttributes, lines 94-106: the exec loop from index p on
RECURSIVE parseAttributesFrom(_, _, _)
parseAttributesFrom(attrStr, p, attributes) ==
    IF p > Len(attrStr) THEN attributes
    ELSE LET match == AttrRegexAt(attrStr, p)
         IN IF match.found
            THEN parseAttributesFrom(attrStr, match.last + 1,
                                     SetAttribute(attributes, match.key, match.value))
            ELSE parseAttributesFrom(attrStr, p + 1, attributes)

parseAttributes(attrStr) == parseAttributesFrom(attrStr, 1, {})

NameKey == <<"n", "a", "m", "e">>

\* tool.name is truthy
HasName(tool) == \E a \in tool : a.key = NameKey /\ a.value # <<>>

\* parseToolCommands, lines 75-92: the exec loop from index i on
RECURSIVE parseToolCommandsFrom(_, _)
parseToolCommandsFrom(text, i) ==
    IF i > Len(text) THEN <<>>
    ELSE LET match == ToolRegexAt(text, i)
         IN IF match.found
            THEN LET tool == parseAttributes(match.group)
                 IN (IF HasName(tool) THEN <<tool>> ELSE <<>>)
                    \o parseToolCommandsFrom(text, match.last + 1)
            ELSE parseToolCommandsFrom(text, i + 1)

parseToolCommands(text) == parseToolCommandsFrom(text, 1)

\* text.replace(/<tool\s+([^>]+?)\/>/g, '') from index i on
RECURSIVE replaceToolCommandsFrom(_, _)
replaceToolCommandsFrom(text, i) ==
    IF i > Len(text) THEN <<>>
    ELSE LET match == ToolRegexAt(text, i)
         IN IF match.found
            THEN replaceToolCommandsFrom(text, match.last + 1)
            ELSE <<text[i]>> \o replaceToolCommandsFrom(text, i + 1)

\* removeToolCommands, lines 111-113
removeToolCommands(text) == trim(replaceToolCommandsFrom(text, 1))

\* hasToolCommands, lines 118-120
hasToolCommands(text) == \E i \in 1..Len(text) : ToolRegexAt(text, i).found

(***************************************************************************)
(* The texts handed to the parser: directives written in the format of the *)
(* header comment, <tool name="ToolName" param1="value1" />, and texts put *)
(* together from pieces of the kinds a model response shows.               *)
(***************************************************************************)
\* A directive: its name and its further attributes, each written between
\* the quote character given with it.
DirectiveNames == {<<"R", "e", "a", "d">>, <<"G", "l", "o", "b">>}

PathKey == <<"p", "a", "t", "h">>

\* Attribute values with the quote characters that may delimit them: a plain
\* value, the empty value, a value with '>', a value with the other quote.
QuotedValues ==
    {[value |-> <<"a">>, quote |-> "\""],
     [value |-> <<"a">>, quote |-> "'"],
     [value |-> <<>>, quote |-> "\""],
     [value |-> <<"a", ">", "b">>, quote |-> "\""],
     [value |-> <<"i", "t", "'", "s">>, quote |-> "\""]}

WellFormedDirectives ==
    {[name |-> n, attrs |-> as] :
        n \in DirectiveNames,
        as \in {<<>>} \cup {<<[key |-> PathKey, value |-> q.value, quote |-> q.quote]>> :
                                q \in QuotedValues}}

\* key="value" with the attribute's quote character
RenderAttribute(a) == <<" ">> \o a.key \o <<"=", a.quote>> \o a.value \o <<a.quote>>

RECURSIVE RenderAttributes(_)
RenderAttributes(as) ==
    IF as = <<>> THEN <<>> ELSE RenderAttribute(Head(as)) \o RenderAttributes(Tail(as))

\* <tool name="ToolName" param1="value1" />
RenderDirective(d) ==
    ToolMarker
    \o RenderAttribute([key |-> NameKey, value |-> d.name, quote |-> "\""])
    \o RenderAttributes(d.attrs) \o <<" ", "/", ">">>

\* The directives of D, one per line
RECURSIVE render(_)
render(D) ==
    IF D = <<>> THEN <<>>
    ELSE IF Len(D) = 1 THEN RenderDirective(D[1])
    ELSE RenderDirective(D[1]) \o <<"\n">> \o render(Tail(D))

\* The attribute mapping a directive stands for
Mapping(d) ==
    {[key |-> NameKey, value |-> d.name]}
    \cup {[key |-> d.attrs[i].key, value |-> d.attrs[i].value] : i \in DOMAIN d.attrs}

\* Pieces of text.  kind: "tag" is a terminated directive with a name,
\* "nameless" a terminated directive without one, "open" a directive that is
\* never terminated, "prose" text without '<', "fragment" part of a marker.
Pieces ==
    {[kind |-> "tag", chars |-> <<"<", "t", "o", "o", "l", " ", "n", "a", "m", "e", "=", "\"", "R", "\"", " ", "/", ">">>,
      tool |-> {[key |-> NameKey, value |-> <<"R">>]}],
     [kind |-> "tag", chars |-> <<"<", "t", "o", "o", "l", " ", "n", "a", "m", "e", "=", "'", "G", "'", " ", "p", "a", "t", "h", "=", "\"", "x", "\"", "/", ">">>,
      tool |-> {[key |-> NameKey, value |-> <<"G">>], [key |-> PathKey, value |-> <<"x">>]}],
     [kind |-> "nameless", chars |-> <<"<", "t", "o", "o", "l", " ", "p", "a", "t", "h", "=", "\"", "y", "\"", " ", "/", ">">>, tool |-> {}],
     [kind |-> "nameless", chars |-> <<"<", "t", "o", "o", "l", " ", "a", "/", ">">>, tool |-> {}],
     [kind |-> "open", chars |-> <<"<", "t", "o", "o", "l", " ", "n", "a", "m", "e", "=", "\"", "W", "\"", " ">>, tool |-> {}],
     [kind |-> "prose", chars |-> <<"o", "k", " ">>, tool |-> {}],
     [kind |-> "fragment", chars |-> <<"<", "t", "o">>, tool |-> {}],
     [kind |-> "fragment", chars |-> <<"o", "l", " ", "b", "/", ">">>, tool |-> {}]}

RECURSIVE Concat(_)
Concat(ps) == IF ps = <<>> THEN <<>> ELSE Head(ps).chars \o Concat(Tail(ps))

\* The invocations the terminated, named directives of a text stand for
RECURSIVE NamedTags(_)
NamedTags(ps) ==
    IF ps = <<>> THEN <<>>
    ELSE (IF Head(ps).kind = "tag" THEN <<Head(ps).tool>> ELSE <<>>) \o NamedTags(Tail(ps))

\* No text has been handed to the tool parser.
NoParsing ==
    [call |-> "none", directives |-> <<>>, pieces |-> <<>>, text |-> <<>>,
     done |-> {}, tools |-> <<>>, clean |-> <<>>, cleanAgain |-> <<>>]

\* A response put together from pieces
PieceTexts ==
    {[NoParsing EXCEPT !.call = "text", !.pieces = ps, !.text = Concat(ps)] :
        ps \in UNION {[1..n -> Pieces] : n \in 0..MaxPieces}}

\* A response that is the rendering of directives
RenderedTexts ==
    {[NoParsing EXCEPT !.call = "render", !.directives = D, !.text = render(D)] :
        D \in UNION {[1..n -> WellFormedDirectives] : n \in 0..MaxDirectives}}

(***************************************************************************)
(* ContextManager (src/src/context-manager.js).                            *)
(***************************************************************************)
EmptyCurrent == [userMessage |-> "", toolExecutions |-> <<>>]

EmptyCompressed ==
    [taskGoal |-> "", filesFound |-> <<>>, filesRead |-> <<>>,
     filesFailed |-> <<>>, recentToolResults |-> <<>>]

\* constructor()
NewContextManager ==
    [sessionContext |-> <<>>,
     currentContext |-> EmptyCurrent,
     compressedContext |-> EmptyCompressed]

\* addToSessionContext(type, content)
addToSessionContext(cm, type, content) ==
    [cm EXCEPT !.sessionContext = Append(@, [type |-> type, content |-> content])]

addUserMessage(cm, message) == addToSessionContext(cm, "user", message)

addReasoningResponse(cm, response) == addToSessionContext(cm, "assistant", response)

\* A startNewRequest that also starts the compressed lists afresh.
startNewRequestResetsLists(cm, userMessage) ==
    [cm EXCEPT !.currentContext = [userMessage |-> userMessage, toolExecutions |-> <<>>],
               !.compressedContext = [EmptyCompressed EXCEPT !.taskGoal = userMessage]]

\* startNewRequest(userMessage)
startNewRequest(cm, userMessage) ==
    [cm EXCEPT !.currentContext = [userMessage |-> userMessage, toolExecutions |-> <<>>],
               !.compressedContext.taskGoal = userMessage]

\* createCompressedSummary(toolName, args, result): the text, by its parts
createCompressedSummary(toolName, args, result) ==
    IF ~result.success THEN [kind |-> "Failed", n |-> 0, text |-> result.error]
    ELSE CASE toolName = "Read" -> [kind |-> "Read", n |-> args.file_path, text |-> ""]
           [] toolName = "Bash" -> [kind |-> "items listed", n |-> Len(result.lines), text |-> ""]
           [] toolName = "Glob" -> [kind |-> "Found files", n |-> Len(result.files), text |-> ""]
           [] toolName = "Grep" -> [kind |-> "matches", n |-> 0, text |-> ""]
           [] OTHER -> [kind |-> "Success", n |-> 0, text |-> ""]

\* updateCompressedContext, lines 102-111: push, then keep the last 2
PushRecent(recent, entry) ==
    LET pushed == Append(recent, entry)
    IN IF Len(pushed) > RecentResultsCap THEN Shift(pushed) ELSE pushed

\* A TrackFilesFound that adds the new files to the ones already found.
TrackFilesFoundMerges(found, toolName, result) ==
    IF toolName = "Bash" /\ result.success
    THEN SliceFirst(found \o FilterSourceLines(result.lines), FilesFoundCap)
    ELSE IF toolName = "Glob" /\ result.success
         THEN SliceFirst(found \o result.files, FilesFoundCap)
         ELSE found

\* updateCompressedContext, lines 113-126: files from Bash (dir) or Glob
TrackFilesFound(found, toolName, result) ==
    IF toolName = "Bash" /\ result.success
    THEN SliceFirst(FilterSourceLines(result.lines), FilesFoundCap)
    ELSE IF toolName = "Glob" /\ result.success
         THEN SliceFirst(result.files, FilesFoundCap)
         ELSE found

\* A PushRead that, over the cap, drops the newest path instead of the oldest.
PushReadDropsNewest(read, path) ==
    LET pushed == Append(read, path)
    IN IF Len(pushed) > FilesReadCap THEN SubSeq(pushed, 1, Len(pushed) - 1) ELSE pushed

\* updateCompressedContext, lines 130-134: push, then keep the last 10
PushRead(read, path) ==
    LET pushed == Append(read, path)
    IN IF Len(pushed) > FilesReadCap THEN Shift(pushed) ELSE pushed

\* PushFailed without the shift of lines 138-140.
PushFailedNoShift(failed, path) == Append(failed, path)

\* updateCompressedContext, lines 136-140: push, then keep the last 5
PushFailed(failed, path) ==
    LET pushed == Append(failed, path)
    IN IF Len(pushed) > FilesFailedCap THEN Shift(pushed) ELSE pushed

\* updateCompressedContext(toolName, args, result)
updateCompressedContext(cc, toolName, args, result) ==
    [cc EXCEPT
        !.recentToolResults =
            PushRecent(@, [tool |-> toolName, success |-> result.success,
                           summary |-> createCompressedSummary(toolName, args, result)]),
        !.filesFound = TrackFilesFound(@, toolName, result),
        !.filesRead =
            IF toolName = "Read" /\ result.success THEN PushRead(@, args.file_path) ELSE @,
        !.filesFailed =
            IF toolName = "Read" /\ ~result.success THEN PushFailed(@, args.file_path) ELSE @]

\* An addToolExecution that keeps only the latest execution in the log.
addToolExecutionKeepsLatest(cm, toolName, args, result) ==
    [cm EXCEPT
        !.currentContext.toolExecutions =
            <<[tool |-> toolName, args |-> args, result |-> result]>>,
        !.compressedContext = updateCompressedContext(@, toolName, args, result)]

\* addToolExecution -> addToolExecutionToCurrent(toolName, args, result, summary)
addToolExecution(cm, toolName, args, result) ==
    [cm EXCEPT
        !.currentContext.toolExecutions =
            Append(@, [tool |-> toolName, args |-> args, result |-> result]),
        !.compressedContext = updateCompressedContext(@, toolName, args, result)]

\* A clear that leaves the session log as it is.
clearKeepsSessionLog(cm) ==
    [sessionContext |-> cm.sessionContext,
     currentContext |-> [userMessage |-> "", toolExecutions |-> <<>>],
     compressedContext |->
        [taskGoal |-> "", filesFound |-> <<>>, filesRead |-> <<>>,
         filesFailed |-> <<>>, recentToolResults |-> <<>>]]

\* clear(), lines 225-239
clear(cm) ==
    [sessionContext |-> <<>>,
     currentContext |-> [userMessage |-> "", toolExecutions |-> <<>>],
     compressedContext |->
        [taskGoal |-> "", filesFound |-> <<>>, filesRead |-> <<>>,
         filesFailed |-> <<>>, recentToolResults |-> <<>>]]

(***************************************************************************)
(* getCompressedContext / getContextForModel: whether building the view    *)
(* throws.  The light view calls f.split('\\') on each of the last 5 read  *)
(* paths and the last 3 failed paths; an undefined path is a TypeError.    *)
(* The heavy view only concatenates.                                       *)
(***************************************************************************)
\* Array.prototype.slice(-n)
SliceLast(s, n) == SubSeq(s, Len(s) - Min(Len(s), n) + 1, Len(s))

ShownFound == 10
ShownRead == 5
ShownFailed == 3

\* The light view with every list rendered in full.
getCompressedContextUnsliced(cm) ==
    [task    |-> cm.compressedContext.taskGoal,
     total   |-> Len(cm.compressedContext.filesFound),
     files   |-> cm.compressedContext.filesFound,
     read    |-> cm.compressedContext.filesRead,
     failed  |-> cm.compressedContext.filesFailed,
     results |-> cm.compressedContext.recentToolResults]

\* getCompressedContext(), lines 172-209: the entries it renders, by section
getCompressedContext(cm) ==
    [task    |-> cm.compressedContext.taskGoal,
     total   |-> Len(cm.compressedContext.filesFound),
     files   |-> SliceFirst(cm.compressedContext.filesFound, ShownFound),
     read    |-> SliceLast(cm.compressedContext.filesRead, ShownRead),
     failed  |-> SliceLast(cm.compressedContext.filesFailed, ShownFailed),
     results |-> cm.compressedContext.recentToolResults]

getCompressedContextThrows(cm) ==
    \/ \E i \in DOMAIN SliceLast(cm.compressedContext.filesRead, ShownRead) :
            SliceLast(cm.compressedContext.filesRead, ShownRead)[i] = Undefined
    \/ \E i \in DOMAIN SliceLast(cm.compressedContext.filesFailed, ShownFailed) :
            SliceLast(cm.compressedContext.filesFailed, ShownFailed)[i] = Undefined

getContextForModelThrows(cm, modelType) ==
    IF modelType = "heavy" THEN FALSE ELSE getCompressedContextThrows(cm)

(***************************************************************************)
(* GroqClient (src/src/groq-client.js): the conversation history, by the   *)
(* roles of its messages.                                                  *)
(***************************************************************************)
\* clearHistory()
clearHistory == <<>>

\* setSystemPrompt(systemPrompt)
setSystemPrompt(history) ==
    IF Len(history) = 0 \/ history[1] # "system"
    THEN <<"system">> \o history
    ELSE history

\* chat, lines 16-21: the prompt is pushed, and the whole history is sent
chatSends(history) == Append(history, "user")

\* chat, line 41: the assistant message is pushed (whatever its content)
chatReceives(history) == Append(history, "assistant")

ClientNames == {"lightClient", "heavyClient"}

\* startChat, lines 83-87: the two clients, each with its system prompt
NewSession ==
    [lightClient |-> setSystemPrompt(<<>>),
     heavyClient |-> setSystemPrompt(<<>>),
     pending |-> [c \in ClientNames |-> 0],
     discarded |-> FALSE]

(***************************************************************************)
(* Directives (the objects parseToolCommands returns) and what the tool    *)
(* providers answer.                                                       *)
(***************************************************************************)
Directive(name, path, command) ==
    [name |-> name, file_path |-> path, command |-> command]

\* { name: 'Bash', command: process.platform === 'win32' ? 'dir /s /b' : 'ls -R' }
DefaultListing == Directive("Bash", Undefined, "ls -R")

\* const toolArgs = { ...toolCmd }; delete toolArgs.name
ToolArgs(cmd) == [file_path |-> cmd.file_path, command |-> cmd.command]

\* Names that are not own keys of toolExecutors but that toolExecutors[name]
\* finds on Object.prototype.
InheritedNames == {"constructor"}

\* The directives model responses carry: the registered tools the light prompt
\* lists, a Read without file_path, a name outside the registry, and a name
\* inherited from Object.prototype.
Directives ==
    {DefaultListing,
     Directive("Glob", Undefined, ""),
     Directive("Read", 1, ""),
     Directive("Read", Undefined, ""),
     Directive("Deploy", Undefined, ""),
     Directive("constructor", Undefined, "")}

\* The directive sets of a response: none, one directive, or two directives.
DirectiveLists ==
    {<<>>} \cup {<<d>> : d \in Directives}
    \cup {<<Directive("Read", 1, ""), Directive("Glob", Undefined, "")>>,
          <<Directive("Deploy", Undefined, ""), Directive("Read", 1, "")>>}

IsRegistered(cmd) == cmd.name \in ToolRegistry

HasRegistered(cmds) == \E i \in DOMAIN cmds : IsRegistered(cmds[i])

\* What toolExecutors[name](args) can return.
ToolOutcomes(cmd) ==
    CASE cmd.name = "Bash" -> {BashOutput(Listing(2)), Failure("exit 1")}
      [] cmd.name = "Glob" -> {GlobFiles(FileList(2)), Failure("Glob search failed")}
      [] cmd.name = "Read" ->
            IF cmd.file_path = Undefined THEN {Failure("Failed to read file")}
            ELSE {Success, Failure("Failed to read file")}
      [] OTHER -> {Success, Failure("failed")}

(***************************************************************************)
(* Model responses.                                                        *)
(***************************************************************************)
\* content === null
NullContent == [status |-> "null", marker |-> FALSE, summary |-> FALSE, cmds |-> <<>>]

\* A text: marker = content.includes('TASK COMPLETE'), summary =
\* removeToolCommands(content).includes('## Summary'), cmds =
\* parseToolCommands(content).
TextResponses ==
    {[status |-> "text", marker |-> m, summary |-> s, cmds |-> c] :
        m \in BOOLEAN, s \in BOOLEAN, c \in DirectiveLists}

\* What the Checkpoint Evaluator's model can answer (content).
EvaluatorContents ==
    {"null", "", "STOP", "CONTINUE", "Do not STOP", "CONTINUE, not STOP"}

\* stopCheckResponse.content.trim().toUpperCase().includes('STOP')
DecisionIncludesStop(content) ==
    content \in {"STOP", "Do not STOP", "CONTINUE, not STOP"}

(***************************************************************************)
(* processUserMessage (src/unnamed/part_001, lines 201-421).  One record   *)
(* per call holds its locals; pc is the await the call is suspended at:    *)
(*   "idle"  not running (returned; rl.prompt() was called)                *)
(*   "plan"  await heavyClient.chat(planPrompt)                 line 222   *)
(*   "chat"  await currentClient.chat(prompt)                   line 249   *)
(*   "tool"  the for loop over toolCommands, at index idx       line 332   *)
(*   "fold"  the for loop is over                               line 370   *)
(*   "check" await heavyClient.chat(stopCheckPrompt)            line 377   *)
(* The awaits of memoryManager (lines 208, 305, 349), whose methods catch  *)
(* their own errors, are taken together with the step they follow.         *)
(* Fields that only record what happened, for the properties:              *)
(*   call      the client the pending chat call was made on                *)
(*   parsed    what the parser returned for the response being worked on   *)
(*   hadFiles  hasFiles as the Glob guard computed it                      *)
(*   handled   the directives the for loop has gone through, this iteration*)
(*   executions the number of tool-provider calls made in this Turn        *)
(*   decision  the content of the evaluator's answer, until the next       *)
(*             main-loop response is received                              *)
(*   prompt    the prompt of the pending main-loop call: the view of the   *)
(*             Context Manager it embeds, and its text                     *)
(*   prevZero  the parser returned no directive in the previous iteration  *)
(*   switchCause  why the pending call was moved to the heavy model by a   *)
(*             `continue`: "summary" (line 291) or "floor" (line 313)      *)
(*   outcome   how the call ended                                          *)
(***************************************************************************)
NoPrompt == [context |-> "none", text |-> ""]

NextToolsQuestion == "Based on the above context, what tools should we execute next?"

\* Lines 245-247: the light model gets the compressed view and a fixed
\* question; the heavy model gets userMessage.
Prompt(tr) ==
    IF tr.useLightModel
    THEN [context |-> "light", text |-> NextToolsQuestion]
    ELSE [context |-> "none", text |-> tr.userMessage]

IdleTurn ==
    [pc |-> "idle", userMessage |-> "", iterationCount |-> 0,
     taskComplete |-> FALSE, useLightModel |-> TRUE,
     toolCommands |-> <<>>, idx |-> 1, toolResults |-> <<>>,
     call |-> "none", parsed |-> <<>>, hadFiles |-> FALSE,
     handled |-> <<>>, executions |-> 0, decision |-> "none",
     prompt |-> NoPrompt, prevZero |-> FALSE, switchCause |-> "none",
     outcome |-> "none", maxIterationsSignal |-> FALSE, mainCalls |-> 0]

SummaryRequest == "Based on all the code you explored, provide a comprehensive summary"
StopSummaryRequest == "Based on all the files explored, create a summary. Then say TASK COMPLETE."
ContinueRequest == "Continue exploration based on compressed context."
ToolResultsRequest == "Tool execution results"

\* Lines 408-420: the loop is left (or the catch block ran); rl.prompt().
\* The locals die with the call; the outcome is kept for the properties.
Ended(tr, how) ==
    [IdleTurn EXCEPT
        !.outcome = how, !.decision = tr.decision,
        !.maxIterationsSignal =
            (how \notin {"error", "provider error"} /\ tr.iterationCount >= maxIterations)]

\* A loop guard that admits one iteration more.
LoopGuardOneMore(tr) == tr.iterationCount <= maxIterations /\ ~tr.taskComplete

\* The loop guard without its !taskComplete conjunct.
LoopGuardIgnoresMarker(tr) == tr.iterationCount < maxIterations

\* Line 231: the loop guard
LoopGuard(tr) == tr.iterationCount < maxIterations /\ ~tr.taskComplete

\* Lines 231-249: the loop guard, then the view for the active tier and the
\* call of its model.
LoopHead(tr, cm) ==
    IF LoopGuard(tr)
    THEN IF getContextForModelThrows(cm, IF tr.useLightModel THEN "light" ELSE "heavy")
         THEN Ended(tr, "error")
         ELSE [tr EXCEPT !.pc = "chat",
                         !.call = IF tr.useLightModel THEN "light" ELSE "heavy",
                         !.prompt = Prompt(tr),
                         !.mainCalls = @ + 1]
    ELSE Ended(tr, IF tr.taskComplete THEN "complete" ELSE "ceiling")

\* The end of an iteration without the iterationCount++ of line 404.
NextIterationNoIncrement(tr, cm) ==
    LoopHead([tr EXCEPT !.toolCommands = <<>>, !.idx = 1, !.toolResults = <<>>,
                        !.parsed = <<>>, !.hadFiles = FALSE, !.handled = <<>>,
                        !.prevZero = (Len(tr.parsed) = 0)], cm)

\* A NextIteration that goes back to the light model.
NextIterationBackToLight(tr, cm) ==
    LoopHead([tr EXCEPT !.iterationCount = @ + 1, !.useLightModel = TRUE,
                        !.toolCommands = <<>>, !.idx = 1, !.toolResults = <<>>,
                        !.parsed = <<>>, !.hadFiles = FALSE, !.handled = <<>>,
                        !.prevZero = (Len(tr.parsed) = 0)], cm)

\* Line 404: iterationCount++, and back to the loop guard.  The locals of
\* the loop body (toolCommands, toolResults, ...) go out of scope.
NextIteration(tr, cm) ==
    LoopHead([tr EXCEPT !.iterationCount = @ + 1,
                        !.toolCommands = <<>>, !.idx = 1, !.toolResults = <<>>,
                        !.parsed = <<>>, !.hadFiles = FALSE, !.handled = <<>>,
                        !.prevZero = (Len(tr.parsed) = 0)], cm)

\* The default listing without the iterationCount === 0 conjunct of line 265.
ForceListingAlways(iterationCount, cmds) ==
    IF Len(cmds) = 0 THEN <<DefaultListing>> ELSE cmds

\* Lines 265-272: first iteration and no tools
ForceListing(iterationCount, cmds) ==
    IF iterationCount = 0 /\ Len(cmds) = 0 THEN <<DefaultListing>> ELSE cmds

\* Lines 274-285: the light model used Glob but no files are in the context
GlobGuard(iterationCount, cmds, hasFiles) ==
    IF iterationCount = 1 /\ (\E i \in DOMAIN cmds : cmds[i].name = "Glob") /\ ~hasFiles
    THEN <<DefaultListing>>
    ELSE cmds

\* Lines 262-285: the directives the iteration works on
EffectiveCommands(iterationCount, parsed, hasFiles) ==
    GlobGuard(iterationCount, ForceListing(iterationCount, parsed), hasFiles)

\* The forced switch without the iterationCount > 3 conjunct.
ForcedSwitchNoFloor(tr) == tr.useLightModel /\ ~tr.taskComplete

\* Line 313: the forced switch to the heavy model
ForcedSwitch(tr) ==
    tr.useLightModel /\ ~tr.taskComplete /\ tr.iterationCount > MinExploration

\* The checkpoint condition without the iterationCount > 0 conjunct.
CheckpointDueAtZero(tr) ==
    tr.useLightModel /\ tr.iterationCount % checkStopEveryN = 0

\* Line 371: ask the heavy model whether to stop
CheckpointDue(tr) ==
    /\ tr.useLightModel
    /\ tr.iterationCount > 0
    /\ tr.iterationCount % checkStopEveryN = 0

\* lightClient.chat, lines 16-21 of groq-client.js, for the call tr is now
\* suspended at (if that is a call on the light client).
Called(history, tr) ==
    IF tr.pc = "chat" /\ tr.call = "light" THEN chatSends(history) ELSE history

\* Lines 389-390 and 395-396: lightClient.clearHistory(), setSystemPrompt
Forget(history) == setSystemPrompt(clearHistory)

OthersInFlight(t) == \E u \in TurnIds \ {t} : turns[u].pc # "idle"

\* The user enters a line.  readline emits 'line' whenever a line arrives,
\* whether or not an earlier handler is still awaiting.
LineArrives ==
    /\ linesRead < MaxLines
    /\ Len(contextManager.sessionContext) <= MaxSession

\* rl.on('line'), lines 184-192 and 201-222: a message starts a Turn.
LineMessage(t, m) ==
    /\ LineArrives
    /\ linesRead' = linesRead + 1
    /\ turns[t].pc = "idle"
    /\ \A u \in TurnIds : u < t => turns[u].pc # "idle"
    /\ contextManager' = startNewRequest(addUserMessage(contextManager, m), m)
    /\ turns' = [turns EXCEPT ![t] =
                    [IdleTurn EXCEPT !.pc = "plan", !.userMessage = m, !.call = "heavy"]]
    /\ UNCHANGED <<lightHistory, selection, parsing, cmCalls, session>>

\* rl.on('line'), lines 134-143: the clear command.
LineClear ==
    /\ LineArrives
    /\ linesRead' = linesRead + 1
    /\ contextManager' = clear(contextManager)
    /\ lightHistory' = setSystemPrompt(clearHistory)
    /\ UNCHANGED <<turns, selection, parsing, cmCalls, session>>

\* Lines 222-229: the planning call returns (its content is only printed).
PlanReturns(t) ==
    /\ turns[t].pc = "plan"
    /\ turns' = [turns EXCEPT ![t] = LoopHead(@, contextManager)]
    /\ lightHistory' = Called(lightHistory, turns'[t])
    /\ UNCHANGED <<contextManager, linesRead, selection, parsing, cmCalls, session>>

\* Lines 249-324: the main-loop call returns r.
AfterResponse(tr0, cm, r) ==
    LET tr       == [tr0 EXCEPT !.decision = "none", !.switchCause = "none"]
        complete == tr.taskComplete \/ r.marker
        hasFiles == Len(cm.compressedContext.filesFound) > 0
        cmds     == EffectiveCommands(tr.iterationCount, r.cmds, hasFiles)
        seen     == [tr EXCEPT !.parsed = r.cmds, !.taskComplete = complete,
                               !.toolCommands = cmds, !.hadFiles = hasFiles,
                               !.handled = <<>>, !.toolResults = <<>>, !.idx = 1]
        \* continue: the locals of the loop body go out of scope
        switched == [tr EXCEPT !.taskComplete = complete, !.useLightModel = FALSE,
                               !.userMessage = SummaryRequest]
        logged   == addReasoningResponse(cm, "reasoning")
    IN IF r.status = "null"
       THEN [turn |-> Ended(tr, "null"), cm |-> cm]
       ELSE IF r.summary /\ Len(cmds) = 0 /\ tr.useLightModel
       THEN [turn |-> LoopHead([switched EXCEPT !.switchCause = "summary"], cm),
             cm |-> cm]
       ELSE IF Len(cmds) = 0
       THEN IF ForcedSwitch(seen)
            THEN [turn |-> LoopHead([switched EXCEPT !.switchCause = "floor"], logged),
                  cm |-> logged]
            ELSE [turn |-> Ended(seen, IF complete THEN "complete" ELSE "answer"),
                  cm |-> logged]
       ELSE [turn |-> [seen EXCEPT !.pc = "tool"], cm |-> logged]

ChatReturns(t, r) ==
    /\ turns[t].pc = "chat"
    /\ OthersInFlight(t) => r.status = "null"
    /\ HasRegistered(r.cmds) => turns[t].executions < MaxToolTurns
    /\ LET next == AfterResponse(turns[t], contextManager, r)
           received == IF turns[t].call = "light"
                       THEN chatReceives(lightHistory) ELSE lightHistory
       IN /\ turns' = [turns EXCEPT ![t] = next.turn]
          /\ contextManager' = next.cm
          /\ lightHistory' = Called(received, next.turn)
          /\ UNCHANGED <<linesRead, selection, parsing, cmCalls, session>>

\* A catch block that also drops what the Turn has recorded.
ChatThrowsDiscardsTurn(t) ==
    /\ turns[t].pc \in {"plan", "chat", "check"}
    /\ turns' = [turns EXCEPT ![t] = Ended(@, "provider error")]
    /\ contextManager' = [contextManager EXCEPT !.currentContext = EmptyCurrent]
    /\ UNCHANGED <<linesRead, lightHistory, selection, parsing, cmCalls, session>>

\* groq-client.js lines 48-51, part_001 lines 414-420: a chat call throws.
ChatThrows(t) ==
    /\ turns[t].pc \in {"plan", "chat", "check"}
    /\ turns' = [turns EXCEPT ![t] = Ended(@, "provider error")]
    /\ UNCHANGED <<contextManager, linesRead, lightHistory, selection, parsing, cmCalls, session>>

\* A for loop that is left after its first pass.
AdvanceToEnd(tr) == [tr EXCEPT !.pc = "fold"]

\* Lines 332-364, one pass of the for loop.
Advance(tr) ==
    IF tr.idx = Len(tr.toolCommands)
    THEN [tr EXCEPT !.pc = "fold"]
    ELSE [tr EXCEPT !.idx = @ + 1]

\* Lines 337-359: the tool is in the registry and answers result.
ToolReturns(t, result) ==
    LET tr  == turns[t]
        cmd == tr.toolCommands[tr.idx]
    IN /\ tr.pc = "tool"
       /\ IsRegistered(cmd)
       /\ result \in ToolOutcomes(cmd)
       /\ contextManager' = addToolExecution(contextManager, cmd.name, ToolArgs(cmd), result)
       /\ UNCHANGED <<linesRead, lightHistory, selection, parsing, cmCalls, session>>
       /\ turns' = [turns EXCEPT ![t] =
            Advance([tr EXCEPT
                !.toolResults = Append(@, [tool |-> cmd.name, args |-> ToolArgs(cmd),
                                           result |-> result]),
                !.handled = Append(@, cmd),
                !.executions = @ + 1])]

\* Lines 360-363: the name is not in the registry.
UnknownTool(t) ==
    LET tr  == turns[t]
        cmd == tr.toolCommands[tr.idx]
    IN /\ tr.pc = "tool"
       /\ ~IsRegistered(cmd)
       /\ cmd.name \notin InheritedNames
       /\ turns' = [turns EXCEPT ![t] = Advance([tr EXCEPT !.handled = Append(@, cmd)])]
       /\ UNCHANGED <<contextManager, linesRead, lightHistory, selection, parsing, cmCalls, session>>

\* Lines 337-345 for a name found on Object.prototype: toolExecutors[name] is
\* truthy, what it returns has no success and no error field, and
\* showToolExecution's result.error.substring throws; the catch block ends
\* the call.
InheritedTool(t) ==
    LET tr  == turns[t]
        cmd == tr.toolCommands[tr.idx]
    IN /\ tr.pc = "tool"
       /\ cmd.name \in InheritedNames
       /\ turns' = [turns EXCEPT ![t] = Ended(tr, "error")]
       /\ UNCHANGED <<contextManager, linesRead, lightHistory, selection, parsing, cmCalls, session>>

\* Lines 370-404 when no checkpoint is due, and line 377 when one is.
Fold(t) ==
    LET tr == turns[t]
    IN /\ tr.pc = "fold"
       /\ turns' = [turns EXCEPT ![t] =
            IF CheckpointDue(tr)
            THEN [tr EXCEPT !.pc = "check", !.call = "heavy", !.decision = "none"]
            ELSE NextIteration(
                    [tr EXCEPT !.userMessage =
                        IF tr.useLightModel THEN ContinueRequest ELSE ToolResultsRequest],
                    contextManager)]
       /\ lightHistory' =
            IF CheckpointDue(tr) THEN lightHistory
            ELSE Called(IF tr.useLightModel THEN Forget(lightHistory) ELSE lightHistory,
                        turns'[t])
       /\ UNCHANGED <<contextManager, linesRead, selection, parsing, cmCalls, session>>

\* Lines 377-392 and 404: the evaluator's answer.
AfterDecision(tr, content) ==
    IF DecisionIncludesStop(content)
    THEN [tr EXCEPT !.useLightModel = FALSE, !.userMessage = StopSummaryRequest,
                    !.decision = content]
    ELSE [tr EXCEPT !.userMessage = ContinueRequest, !.decision = content]

CheckReturns(t, content) ==
    LET tr == turns[t]
    IN /\ tr.pc = "check"
       /\ turns' = [turns EXCEPT ![t] =
            IF content = "null"
            THEN Ended([tr EXCEPT !.decision = content], "error")
            ELSE NextIteration(AfterDecision(tr, content), contextManager)]
       /\ lightHistory' =
            IF content = "null" THEN lightHistory
            ELSE Called(IF DecisionIncludesStop(content)
                        THEN lightHistory ELSE Forget(lightHistory),
                        turns'[t])
       /\ UNCHANGED <<contextManager, linesRead, selection, parsing, cmCalls, session>>

Init ==
    /\ contextManager = NewContextManager
    /\ turns = [t \in TurnIds |-> IdleTurn]
    /\ linesRead = 0
    /\ lightHistory = setSystemPrompt(<<>>)
    /\ selection = NoSelection
    /\ parsing = NoParsing
    /\ cmCalls = <<>>
    /\ session = NewSession

Next ==
    \/ \E t \in TurnIds, m \in UserTexts : LineMessage(t, m)
    \/ LineClear
    \/ \E t \in TurnIds : PlanReturns(t)
    \/ \E t \in TurnIds, r \in TextResponses \cup {NullContent} : ChatReturns(t, r)
    \/ \E t \in TurnIds : ChatThrows(t)
    \/ \E t \in TurnIds, result \in UNION {ToolOutcomes(d) : d \in Directives} :
            ToolReturns(t, result)
    \/ \E t \in TurnIds : UnknownTool(t)
    \/ \E t \in TurnIds : InheritedTool(t)
    \/ \E t \in TurnIds : Fold(t)
    \/ \E t \in TurnIds, c \in EvaluatorContents : CheckReturns(t, c)

Spec == Init /\ [][Next]_vars

\* One step of the processUserMessage call t: a pending await settles, or the
\* synchronous code between two awaits runs.
TurnStep(t) ==
    \/ PlanReturns(t)
    \/ \E r \in TextResponses \cup {NullContent} : ChatReturns(t, r)
    \/ ChatThrows(t)
    \/ \E result \in UNION {ToolOutcomes(d) : d \in Directives} : ToolReturns(t, result)
    \/ UnknownTool(t)
    \/ InheritedTool(t)
    \/ Fold(t)
    \/ \E c \in EvaluatorContents : CheckReturns(t, c)

\* Every provider call returns or throws, and the event loop runs what is
\* ready: a call that can take a step eventually takes one.
FairSpec == Spec /\ \A t \in TurnIds : WF_vars(TurnStep(t))

(***************************************************************************)
(* The agent loop with a clear command that arrives late: when the session *)
(* log holds one entry more than MaxSession, that is, once the first       *)
(* response of a Turn has been logged, while the Turn is suspended or      *)
(* after it has ended.                                                     *)
(***************************************************************************)
LineArrivesLate ==
    /\ linesRead < MaxLines
    /\ Len(contextManager.sessionContext) = MaxSession + 1

\* rl.on('line'), lines 134-143: the clear command.
LineClearLate ==
    /\ LineArrivesLate
    /\ linesRead' = linesRead + 1
    /\ contextManager' = clear(contextManager)
    /\ lightHistory' = setSystemPrompt(clearHistory)
    /\ UNCHANGED <<turns, selection, parsing, cmCalls, session>>

InitLate == Init

NextLate == Next \/ LineClearLate

SpecLate == InitLate /\ [][NextLate]_vars

(***************************************************************************)
(* The Context Manager driven through its interface by any caller.         *)
(***************************************************************************)
NoArgs == [file_path |-> Undefined, command |-> ""]

\* The (toolName, args, result) triples a caller records.
Executions ==
    {[tool |-> "Read", args |-> [file_path |-> p, command |-> ""], result |-> Success] : p \in Paths}
    \cup {[tool |-> "Read", args |-> [file_path |-> p, command |-> ""], result |-> Failure("ENOENT")] :
            p \in Paths \cup {Undefined}}
    \cup {[tool |-> "Bash", args |-> NoArgs, result |-> BashOutput(Listing(n))] :
            n \in ListingSizes}
    \cup {[tool |-> "Glob", args |-> NoArgs, result |-> GlobFiles(FileList(n))] :
            n \in ListingSizes}
    \cup {[tool |-> t, args |-> NoArgs, result |-> Failure("failed")] :
            t \in {"Bash", "Glob"}}
    \cup {[tool |-> "Deploy", args |-> NoArgs, result |-> Success]}

CMAddToolExecution ==
    \E e \in Executions :
        /\ Len(contextManager.currentContext.toolExecutions) < MaxLog
        /\ contextManager' = addToolExecution(contextManager, e.tool, e.args, e.result)
        /\ UNCHANGED <<turns, linesRead, lightHistory, selection, parsing, cmCalls, session>>

CMAddUserMessage ==
    \E m \in UserTexts :
        /\ Len(contextManager.sessionContext) < MaxSession
        /\ contextManager' = addUserMessage(contextManager, m)
        /\ UNCHANGED <<turns, linesRead, lightHistory, selection, parsing, cmCalls, session>>

CMStartNewRequest ==
    \E m \in UserTexts :
        /\ contextManager' = startNewRequest(contextManager, m)
        /\ UNCHANGED <<turns, linesRead, lightHistory, selection, parsing, cmCalls, session>>

CMClear ==
    /\ contextManager' = clear(contextManager)
    /\ UNCHANGED <<turns, linesRead, lightHistory, selection, parsing, cmCalls, session>>

InitCM == Init

NextCM == CMAddToolExecution \/ CMAddUserMessage \/ CMStartNewRequest \/ CMClear

SpecCM == InitCM /\ [][NextCM]_vars

(***************************************************************************)
(* The model selector called on any message, prior tool calls, preference  *)
(* and flag, and startChat called with any command line.                   *)
(***************************************************************************)
AnalyzeTaskComplexity ==
    /\ selection.call = "selectModel"
    /\ selection.complexity = "none"
    /\ selection' = [selection EXCEPT !.complexity =
                        analyzeTaskComplexity(selection.message, selection.toolCalls)]
    /\ UNCHANGED <<contextManager, turns, linesRead, lightHistory, parsing, cmCalls, session>>

SelectModel ==
    /\ selection.call = "selectModel"
    /\ selection.selected = "none"
    /\ selection' = [selection EXCEPT !.selected =
                        selectModel(selection.message, selection.toolCalls,
                                    selection.userPreference, selection.useExperimental)]
    /\ UNCHANGED <<contextManager, turns, linesRead, lightHistory, parsing, cmCalls, session>>

StartChat ==
    /\ selection.call = "startChat"
    /\ selection.heavyModel = "none"
    /\ selection' = [selection EXCEPT !.heavyModel =
                        startChat(selection.model,
                                  [autoModel |-> selection.autoModel,
                                   experimental |-> selection.useExperimental]).heavyModel]
    /\ UNCHANGED <<contextManager, turns, linesRead, lightHistory, parsing, cmCalls, session>>

InitSelect ==
    /\ contextManager = NewContextManager
    /\ turns = [t \in TurnIds |-> IdleTurn]
    /\ linesRead = 0
    /\ lightHistory = setSystemPrompt(<<>>)
    /\ parsing = NoParsing
    /\ cmCalls = <<>>
    /\ session = NewSession
    /\ selection \in SelectorQueries \cup StartupQueries

NextSelect == AnalyzeTaskComplexity \/ SelectModel \/ StartChat

SpecSelect == InitSelect /\ [][NextSelect]_vars

(***************************************************************************)
(* The tool parser called on any text: parseToolCommands, and              *)
(* removeToolCommands applied once and then to its own result.             *)
(***************************************************************************)
ParseToolCommands ==
    /\ parsing.call # "none"
    /\ "parse" \notin parsing.done
    /\ parsing' = [parsing EXCEPT !.done = @ \cup {"parse"},
                                  !.tools = parseToolCommands(parsing.text)]
    /\ UNCHANGED <<contextManager, turns, linesRead, lightHistory, selection, cmCalls, session>>

RemoveToolCommands ==
    /\ parsing.call # "none"
    /\ "remove" \notin parsing.done
    /\ parsing' = [parsing EXCEPT !.done = @ \cup {"remove"},
                                  !.clean = removeToolCommands(parsing.text)]
    /\ UNCHANGED <<contextManager, turns, linesRead, lightHistory, selection, cmCalls, session>>

RemoveToolCommandsAgain ==
    /\ "remove" \in parsing.done
    /\ "removeAgain" \notin parsing.done
    /\ parsing' = [parsing EXCEPT !.done = @ \cup {"removeAgain"},
                                  !.cleanAgain = removeToolCommands(parsing.clean)]
    /\ UNCHANGED <<contextManager, turns, linesRead, lightHistory, selection, cmCalls, session>>

InitParse ==
    /\ contextManager = NewContextManager
    /\ turns = [t \in TurnIds |-> IdleTurn]
    /\ linesRead = 0
    /\ lightHistory = setSystemPrompt(<<>>)
    /\ selection = NoSelection
    /\ cmCalls = <<>>
    /\ session = NewSession
    /\ parsing \in PieceTexts \cup RenderedTexts

NextParse == ParseToolCommands \/ RemoveToolCommands \/ RemoveToolCommandsAgain

SpecParse == InitParse /\ [][NextParse]_vars

(***************************************************************************)
(* The Context Manager driven through its interface, with the calls made   *)
(* since construction or the last clear recorded in cmCalls.  The n-th     *)
(* recorded call, when it is a read, names path n, so that every read      *)
(* names a path of its own.                                                *)
(***************************************************************************)
StartCall(m) ==
    [call |-> "startNewRequest", message |-> m,
     tool |-> "", args |-> NoArgs, result |-> Success]

ExecutionCall(e) ==
    [call |-> "addToolExecution", message |-> "",
     tool |-> e.tool, args |-> e.args, result |-> e.result]

\* A read of path p, succeeding or failing.
ReadOf(p, ok) ==
    [tool |-> "Read", args |-> [file_path |-> p, command |-> ""],
     result |-> IF ok THEN Success ELSE Failure("ENOENT")]

IsReadOfPath(c) ==
    c.call = "addToolExecution" /\ c.tool = "Read" /\ c.args.file_path # Undefined

OtherCalls(calls) == Len(SelectSeq(calls, LAMBDA c : ~IsReadOfPath(c)))

\* The executions a caller records besides the reads of a path.
OtherExecutions == {e \in Executions : e.tool # "Read" \/ e.args.file_path = Undefined}

RecordRead ==
    \E ok \in BOOLEAN :
        LET e == ReadOf(Len(cmCalls) + 1, ok)
        IN /\ Len(cmCalls) < MaxCalls
           /\ contextManager' = addToolExecution(contextManager, e.tool, e.args, e.result)
           /\ cmCalls' = Append(cmCalls, ExecutionCall(e))
           /\ UNCHANGED <<turns, linesRead, lightHistory, selection, parsing, session>>

RecordAddToolExecution ==
    \E e \in OtherExecutions :
        /\ Len(cmCalls) < MaxCalls
        /\ OtherCalls(cmCalls) < MaxOtherCalls
        /\ contextManager' = addToolExecution(contextManager, e.tool, e.args, e.result)
        /\ cmCalls' = Append(cmCalls, ExecutionCall(e))
        /\ UNCHANGED <<turns, linesRead, lightHistory, selection, parsing, session>>

RecordStartNewRequest ==
    \E m \in UserTexts :
        /\ Len(cmCalls) < MaxCalls
        /\ OtherCalls(cmCalls) < MaxOtherCalls
        /\ contextManager' = startNewRequest(contextManager, m)
        /\ cmCalls' = Append(cmCalls, StartCall(m))
        /\ UNCHANGED <<turns, linesRead, lightHistory, selection, parsing, session>>

\* The session log is no part of the recorded calls.
RecordAddUserMessage ==
    \E m \in UserTexts :
        /\ Len(contextManager.sessionContext) < MaxSession
        /\ contextManager' = addUserMessage(contextManager, m)
        /\ UNCHANGED <<turns, linesRead, lightHistory, selection, parsing, cmCalls, session>>

RecordClear ==
    /\ contextManager' = clear(contextManager)
    /\ cmCalls' = <<>>
    /\ UNCHANGED <<turns, linesRead, lightHistory, selection, parsing, session>>

InitCalls == Init

NextCalls ==
    \/ RecordRead
    \/ RecordAddToolExecution
    \/ RecordStartNewRequest
    \/ RecordAddUserMessage
    \/ RecordClear

SpecCalls == InitCalls /\ [][NextCalls]_vars

\* What the recorded calls hold: the executions, the paths read with
\* success and the paths whose read failed, each in the order of the calls.
ExecutionsOf(calls) == SelectSeq(calls, LAMBDA c : c.call = "addToolExecution")

PathsOf(calls) == [i \in 1..Len(calls) |-> calls[i].args.file_path]

SuccessfulReads(calls) ==
    SelectSeq(calls, LAMBDA c : c.call = "addToolExecution" /\ c.tool = "Read" /\ c.result.success)

FailedReads(calls) ==
    SelectSeq(calls, LAMBDA c : c.call = "addToolExecution" /\ c.tool = "Read" /\ ~c.result.success)

StartsOf(calls) == SelectSeq(calls, LAMBDA c : c.call = "startNewRequest")

\* The successful Bash and Glob executions
DiscoveriesOf(calls) ==
    SelectSeq(calls, LAMBDA c : c.call = "addToolExecution"
                                /\ c.tool \in {"Bash", "Glob"} /\ c.result.success)

\* A new Context Manager on which the calls are made, in order.
RECURSIVE Replay(_)
Replay(calls) ==
    IF calls = <<>> THEN NewContextManager
    ELSE LET cm == Replay(SubSeq(calls, 1, Len(calls) - 1))
             c  == calls[Len(calls)]
         IN IF c.call = "startNewRequest"
            THEN startNewRequest(cm, c.message)
            ELSE addToolExecution(cm, c.tool, c.args, c.result)

(***************************************************************************)
(* A chat session driven through the interfaces of its two model clients   *)
(* and its Context Manager, and by the clear command.  A chat call pushes  *)
(* the prompt at once and the reply when the provider answers; other calls *)
(* run in between.  session.discarded records that the last clear command  *)
(* found a session log entry, a tool execution and, in each client's       *)
(* history, a message besides the system prompt.                           *)
(***************************************************************************)
\* chat, lines 16-38: the prompt is pushed and the request is sent
ClientChat ==
    \E c \in ClientNames :
        /\ Len(session[c]) < MaxHistory
        /\ session.pending[c] < MaxPending
        /\ session' = [session EXCEPT ![c] = chatSends(@), !.pending[c] = @ + 1]
        /\ UNCHANGED <<contextManager, turns, linesRead, lightHistory, selection, parsing, cmCalls>>

\* chat, lines 39-47: the provider answers
ClientChatReturns ==
    \E c \in ClientNames :
        /\ session.pending[c] > 0
        /\ Len(session[c]) < MaxHistory
        /\ session' = [session EXCEPT ![c] = chatReceives(@), !.pending[c] = @ - 1]
        /\ UNCHANGED <<contextManager, turns, linesRead, lightHistory, selection, parsing, cmCalls>>

\* chat, lines 48-51: the request fails and the error is thrown on
ClientChatThrows ==
    \E c \in ClientNames :
        /\ session.pending[c] > 0
        /\ session' = [session EXCEPT !.pending[c] = @ - 1]
        /\ UNCHANGED <<contextManager, turns, linesRead, lightHistory, selection, parsing, cmCalls>>

\* processUserMessage, lines 389-390 and 395-396: the light client's history
\* is emptied and given its system prompt again
LightClientReset ==
    /\ session' = [session EXCEPT !.lightClient = setSystemPrompt(clearHistory)]
    /\ UNCHANGED <<contextManager, turns, linesRead, lightHistory, selection, parsing, cmCalls>>

\* rl.on('line'), lines 134-143: the clear command, on the Context Manager
\* and the two histories
clearCommand(cm, lightClient, heavyClient) ==
    [contextManager |-> clear(cm),
     lightClient |-> setSystemPrompt(clearHistory),
     heavyClient |-> setSystemPrompt(clearHistory)]

ClearCommand ==
    LET cleared == clearCommand(contextManager, session.lightClient, session.heavyClient)
    IN /\ session' =
            [session EXCEPT
                !.lightClient = cleared.lightClient,
                !.heavyClient = cleared.heavyClient,
                !.discarded =
                    /\ Len(contextManager.sessionContext) > 0
                    /\ Len(contextManager.currentContext.toolExecutions) > 0
                    /\ Len(session.lightClient) > 1
                    /\ Len(session.heavyClient) > 1]
       /\ contextManager' = cleared.contextManager
       /\ UNCHANGED <<turns, linesRead, lightHistory, selection, parsing, cmCalls>>

\* The Context Manager records one tool execution at most.
SessionToolExecution ==
    /\ contextManager.compressedContext.recentToolResults = <<>>
    /\ CMAddToolExecution

InitSession == Init

NextSession ==
    \/ ClientChat
    \/ ClientChatReturns
    \/ ClientChatThrows
    \/ LightClientReset
    \/ ClearCommand
    \/ CMAddUserMessage
    \/ CMStartNewRequest
    \/ SessionToolExecution

SpecSession == InitSession /\ [][NextSession]_vars

(***************************************************************************)
(* C1: after any sequence of addToolExecution, startNewRequest and clear   *)
(* calls, the compressed view holds at most 15 found files, 10 read files, *)
(* 5 failed files and 2 recent tool results.                               *)
(***************************************************************************)
CompressedViewBounded ==
    LET cc == contextManager.compressedContext
    IN /\ Len(cc.filesFound) <= FilesFoundCap
       /\ Len(cc.filesRead) <= FilesReadCap
       /\ Len(cc.filesFailed) <= FilesFailedCap
       /\ Len(cc.recentToolResults) <= RecentResultsCap

\* Every list is full at once, after a listing longer than the cap.
CompressedViewFull ==
    LET cc == contextManager.compressedContext
    IN /\ Len(cc.filesFound) = FilesFoundCap
       /\ Len(cc.filesRead) = FilesReadCap
       /\ Len(cc.filesFailed) = FilesFailedCap
       /\ Len(cc.recentToolResults) = RecentResultsCap

\* How far a running call is from the end of its loop: the iterations left,
\* then the place within the iteration (the model call, on the light tier
\* before the heavy one; the directives still to go; the fold; the
\* checkpoint).  The planning call comes before everything.
Rank(tr) ==
    LET within ==
            CASE tr.pc = "chat"  -> IF tr.useLightModel THEN 9 ELSE 8
              [] tr.pc = "tool"  -> 3 + Len(tr.toolCommands) - tr.idx
              [] tr.pc = "fold"  -> 2
              [] tr.pc = "check" -> 1
              [] OTHER           -> 0
    IN IF tr.pc = "plan" THEN (maxIterations + 1) * 10
       ELSE (maxIterations - tr.iterationCount) * 10 + within

(***************************************************************************)
(* C2: whatever the model responses and tool results are, a                *)
(* processUserMessage call that has started eventually returns to the      *)
(* prompt, provided every provider call returns or throws: every step of a *)
(* running call either returns or brings it closer to the end of its loop  *)
(* (no response makes it go round in place).                               *)
(***************************************************************************)
TurnTerminates ==
    /\ \A t \in TurnIds : (turns[t].pc # "idle") ~> (turns[t].pc = "idle")
    /\ [][\A t \in TurnIds :
            (turns[t].pc # "idle" /\ turns'[t] # turns[t])
            => \/ turns'[t].pc = "idle"
               \/ /\ Rank(turns'[t]) < Rank(turns[t])
                  /\ Rank(turns'[t]) > 0]_vars

\* A call ran through all maxIterations iterations and returned.
TurnHitCeiling ==
    \E t \in TurnIds :
        /\ turns[t].pc = "idle"
        /\ turns[t].outcome = "ceiling"
        /\ turns[t].maxIterationsSignal

(***************************************************************************)
(* C3 as stated: a response that carries the completion marker together    *)
(* with directives does not end the Turn; once its directives are done the *)
(* call ends only at the iteration ceiling (or through an error).          *)
(***************************************************************************)
MarkerWithDirectivesKeepsLooping ==
    [][\A t \in TurnIds :
        (/\ turns[t].pc = "fold"
         /\ turns[t].taskComplete
         /\ turns'[t].pc = "idle")
        => \/ turns[t].iterationCount + 1 >= maxIterations
           \/ turns'[t].outcome \in {"error", "provider error"}]_vars

(***************************************************************************)
(* C3: the completion marker ends the Turn whether or not directives come  *)
(* with it.  No main-loop model call is made once the marker was seen;     *)
(* the directives of the response that carried it are still worked through *)
(* (and the checkpoint is asked if one is due), then the call returns.     *)
(***************************************************************************)
MarkerEndsTurnAfterDirectives ==
    [][\A t \in TurnIds :
        /\ turns'[t].pc = "chat" => ~turns'[t].taskComplete
        /\ (turns[t].taskComplete /\ turns'[t] # turns[t])
            => \/ /\ turns'[t].pc \in {"tool", "fold", "check"}
                  /\ turns'[t].taskComplete
                  /\ turns'[t].iterationCount = turns[t].iterationCount
               \/ /\ turns'[t].pc = "idle"
                  /\ turns'[t].outcome \in {"complete", "error", "provider error"}]_vars

\* The directives of a marker-bearing response are done, below the ceiling.
MarkerDirectivesDone ==
    \E t \in TurnIds :
        /\ turns[t].pc = "fold"
        /\ turns[t].taskComplete
        /\ Len(turns[t].parsed) > 0
        /\ Len(turns[t].handled) = Len(turns[t].toolCommands)
        /\ turns[t].iterationCount + 1 < maxIterations

(***************************************************************************)
(* C4 as stated: while a processUserMessage call is suspended at a model   *)
(* or tool call, no line of input is processed: no second call starts and  *)
(* no clear runs.                                                          *)
(***************************************************************************)
OneTurnAtATime ==
    [][(\E t \in TurnIds : turns[t].pc # "idle") => linesRead' = linesRead]_vars

(***************************************************************************)
(* C5 as stated: for a directive whose name is not in the registry the     *)
(* loop appends a Failure 'Unknown tool: <name>' to the tool results of    *)
(* the iteration and goes on.                                              *)
(***************************************************************************)
UnknownToolYieldsFailure ==
    [][\A t \in TurnIds :
        (/\ turns[t].pc = "tool"
         /\ ~IsRegistered(turns[t].toolCommands[turns[t].idx])
         /\ turns'[t] # turns[t])
        => /\ turns'[t].pc \in {"tool", "fold"}
           /\ Len(turns'[t].toolResults) = Len(turns[t].toolResults) + 1
           /\ LET last == turns'[t].toolResults[Len(turns'[t].toolResults)]
              IN /\ last.tool = turns[t].toolCommands[turns[t].idx].name
                 /\ ~last.result.success
                 /\ last.result.error = "Unknown tool"]_vars

RECURSIVE RegisteredPrefix(_, _)
RegisteredPrefix(cmds, n) ==
    IF n = 0 THEN <<>>
    ELSE LET rest == RegisteredPrefix(cmds, n - 1)
         IN IF IsRegistered(cmds[n])
            THEN Append(rest, [tool |-> cmds[n].name, args |-> ToolArgs(cmds[n])])
            ELSE rest

DefaultListingOnlyAtFirstIteration ==
    \A t \in TurnIds :
        (turns[t].pc \in {"tool", "fold", "check"} /\ Len(turns[t].parsed) = 0)
        => /\ turns[t].iterationCount = 0
           /\ turns[t].toolCommands = <<DefaultListing>>
           /\ turns[t].pc \in {"fold", "check"} =>
                /\ Len(turns[t].toolResults) = 1
                /\ turns[t].toolResults[1].tool = "Bash"
                /\ turns[t].toolResults[1].args.command = "ls -R"

\* The first response had no directive and the default listing has run.
DefaultListingExecuted ==
    \E t \in TurnIds :
        /\ turns[t].pc = "fold"
        /\ turns[t].iterationCount = 0
        /\ Len(turns[t].parsed) = 0
        /\ Len(turns[t].toolResults) = 1

(***************************************************************************)
(* C8 as stated: the first tool dispatched in a Turn is a file-discovery   *)
(* directive (directory listing or glob).                                  *)
(***************************************************************************)
FirstToolIsDiscovery ==
    [][\A t \in TurnIds :
        (/\ turns[t].pc = "tool"
         /\ turns[t].executions = 0
         /\ turns'[t].executions = 1)
        => turns[t].toolCommands[turns[t].idx].name \in {"Bash", "Glob"}]_vars

(***************************************************************************)
(* C9 as stated: at a checkpoint on the light tier, when the evaluator's   *)
(* answer is not an unambiguous STOP the loop stays on the light tier and  *)
(* the next light-tier model call is made.                                 *)
(***************************************************************************)
CheckpointFailsOpen ==
    [][\A t \in TurnIds :
        (/\ turns[t].pc = "check"
         /\ turns[t].useLightModel
         /\ ~turns[t].taskComplete
         /\ turns[t].iterationCount + 1 < maxIterations
         /\ ~getContextForModelThrows(contextManager, "light")
         /\ turns'[t].decision \notin {"none", "STOP"})
        => /\ turns'[t].pc = "chat"
           /\ turns'[t].useLightModel
           /\ turns'[t].call = "light"]_vars

(***************************************************************************)
(* C10 as stated: when the for loop is over, the evaluator is asked if and *)
(* only if the loop is on the light tier and iterationCount is a multiple  *)
(* of checkStopEveryN.                                                     *)
(***************************************************************************)
CheckpointAtEveryMultiple ==
    [][\A t \in TurnIds :
        (turns[t].pc = "fold" /\ turns'[t] # turns[t])
        => (turns'[t].pc = "check"
            <=> (turns[t].useLightModel
                 /\ turns[t].iterationCount % checkStopEveryN = 0))]_vars

(***************************************************************************)
(* C10: when the for loop is over, the evaluator is asked if and only if   *)
(* the loop is on the light tier and iterationCount is a positive multiple *)
(* of checkStopEveryN (never at iteration 0, never on the heavy tier).     *)
(* An answer that contains STOP switches to the heavy tier; the tier never *)
(* goes back to light within the call, and every main-loop call is made on *)
(* the client of the current tier.                                         *)
(***************************************************************************)
CheckpointAtPositiveMultiples ==
    /\ [](\A t \in TurnIds :
            /\ turns[t].pc = "check" => turns[t].call = "heavy"
            /\ turns[t].pc = "chat" =>
                turns[t].call = IF turns[t].useLightModel THEN "light" ELSE "heavy")
    /\ [][\A t \in TurnIds :
            /\ (turns[t].pc = "fold" /\ turns'[t] # turns[t])
                => (turns'[t].pc = "check"
                    <=> (/\ turns[t].useLightModel
                         /\ turns[t].iterationCount > 0
                         /\ turns[t].iterationCount % checkStopEveryN = 0))
            /\ (/\ turns[t].pc = "check"
                /\ turns'[t].decision \in {"STOP", "Do not STOP", "CONTINUE, not STOP"}
                /\ turns'[t].pc # "idle")
                => ~turns'[t].useLightModel
            /\ (~turns[t].useLightModel /\ turns[t].pc # "idle" /\ turns'[t].pc # "idle")
                => ~turns'[t].useLightModel]_vars

\* The evaluator was asked at iteration 5, answered STOP, and the next call
\* is on the heavy client.
HeavyCallAfterStop ==
    \E t \in TurnIds :
        /\ turns[t].pc = "chat"
        /\ turns[t].decision = "STOP"
        /\ turns[t].iterationCount = checkStopEveryN + 1
        /\ turns[t].call = "heavy"

HeavyCallCarriesFullContext ==
    \A t \in TurnIds :
        (turns[t].pc = "chat" /\ turns[t].call = "heavy")
        => turns[t].prompt.context = "heavy"

(***************************************************************************)
(* C13 as stated: whenever a call is made on the light client, the         *)
(* messages it sends are the system prompt and the prompt of this call     *)
(* only (here in a session whose calls of processUserMessage never        *)
(* overlapped).                                                            *)
(***************************************************************************)
LightCallSendsOnlyCurrentPrompt ==
    [][\A t \in TurnIds :
        (/\ turns'[t] # turns[t]
         /\ turns'[t].pc = "chat" /\ turns'[t].call = "light"
         /\ \A u \in TurnIds \ {t} : turns[u] = IdleTurn)
        => lightHistory' = <<"system", "user">>]_vars

(***************************************************************************)
(* C14: whatever was recorded before, the light view renders at most 10    *)
(* found files, 5 read files, 3 failed files and 2 results.                *)
(***************************************************************************)
LightViewBounded ==
    LET view == getCompressedContext(contextManager)
    IN /\ Len(view.files) <= 10
       /\ Len(view.read) <= 5
       /\ Len(view.failed) <= 3
       /\ Len(view.results) <= 2

\* Every section of the view is full, and every list behind it is longer
\* than what the view shows of it.
LightViewFull ==
    LET view == getCompressedContext(contextManager)
        cc   == contextManager.compressedContext
    IN /\ Len(view.files) = 10 /\ Len(cc.filesFound) > 10
       /\ Len(view.read) = 5 /\ Len(cc.filesRead) > 5
       /\ Len(view.failed) = 3 /\ Len(cc.filesFailed) > 3
       /\ Len(view.results) = 2

(***************************************************************************)
(* C15 as stated: once a failed Read of path P has been recorded, the      *)
(* light view lists P among the failed files and no longer among the       *)
(* found files.                                                            *)
(***************************************************************************)
FailedPathLeavesFoundFiles ==
    [][LET failed == contextManager'.compressedContext.filesFailed
           view   == getCompressedContext(contextManager')
       IN (failed # contextManager.compressedContext.filesFailed /\ Len(failed) > 0)
          => /\ \E i \in DOMAIN view.failed : view.failed[i] = failed[Len(failed)]
             /\ \A i \in DOMAIN view.files : view.files[i] # failed[Len(failed)]]_vars

(***************************************************************************)
(* C16 as stated: a tool failure never aborts the Turn.  When the          *)
(* iteration whose results include a Failure is over, the loop goes on to  *)
(* its next model call (or leaves by its guard); it does not end in the    *)
(* catch block.                                                            *)
(***************************************************************************)
ToolFailureNeverAbortsTurn ==
    [][\A t \in TurnIds :
          (/\ turns[t].pc = "fold"
           /\ turns'[t] # turns[t]
           /\ \E i \in DOMAIN turns[t].toolResults :
                 ~turns[t].toolResults[i].result.success)
          => turns'[t].outcome # "error"]_vars

(***************************************************************************)
(* C17: when a chat-provider call throws, the Turn ends there (it makes no *)
(* further model call and dispatches no tool), and the step that handles   *)
(* the throw leaves the Context Manager -- session log, Turn log and       *)
(* compressed view -- exactly as it was.                                   *)
(***************************************************************************)
ProviderErrorEndsTurnKeepsContext ==
    [][\A t \in TurnIds :
          (/\ turns[t].pc \in {"plan", "chat", "check"}
           /\ turns'[t] # turns[t]
           /\ turns'[t].outcome = "provider error")
          => /\ turns'[t].pc = "idle"
             /\ contextManager' = contextManager]_vars

\* A provider call has thrown in a Turn that had already logged its message
\* and a tool execution, and both are still there.
ProviderErrorAfterToolUse ==
    \E t \in TurnIds :
        /\ turns[t].pc = "idle"
        /\ turns[t].outcome = "provider error"
        /\ Len(contextManager.sessionContext) > 0
        /\ Len(contextManager.currentContext.toolExecutions) > 0
        /\ Len(contextManager.compressedContext.recentToolResults) > 0

(***************************************************************************)
(* C18 as stated: a provider response whose content is null ends the Turn  *)
(* at once and without an error.  Stated here for the checkpoint call: when *)
(* the evaluator's content is null the Turn ends the way a null main-loop  *)
(* response ends it.                                                       *)
(***************************************************************************)
NullContentEndsTurnQuietly ==
    [][\A t \in TurnIds :
          (turns[t].pc = "check" /\ turns'[t].decision = "null")
          => /\ turns'[t].pc = "idle"
             /\ turns'[t].outcome = "null"]_vars

(***************************************************************************)
(* C19 as stated: the "maximum iteration limit" message is printed at the  *)
(* end of a Turn exactly when the Turn stopped because iterationCount      *)
(* reached maxIterations; a Turn in which the completion marker was seen   *)
(* ends without it.                                                        *)
(***************************************************************************)
MaxIterationsSignalIffCeiling ==
    \A t \in TurnIds :
        turns[t].pc = "idle"
        => (turns[t].maxIterationsSignal <=> turns[t].outcome = "ceiling")

(***************************************************************************)
(* C20: startNewRequest(m) makes the Turn state {userMessage: m,           *)
(* toolExecutions: []} and the compressed task goal m, and leaves the      *)
(* session log and the compressed lists filesFound, filesRead, filesFailed *)
(* and recentToolResults as they are: for the result of the call on every  *)
(* reachable Context Manager, and for every step that is such a call.      *)
(***************************************************************************)
StartNewRequestResetsTurnOnly ==
    /\ [](\A m \in UserTexts :
            LET after == startNewRequest(contextManager, m)
            IN /\ after.currentContext = [userMessage |-> m, toolExecutions |-> <<>>]
               /\ after.compressedContext =
                    [contextManager.compressedContext EXCEPT !.taskGoal = m]
               /\ after.sessionContext = contextManager.sessionContext)
    /\ [][(/\ contextManager'.currentContext # contextManager.currentContext
           /\ contextManager'.currentContext.toolExecutions = <<>>
           /\ contextManager'.currentContext.userMessage # "")
          => /\ contextManager'.sessionContext = contextManager.sessionContext
             /\ contextManager'.compressedContext =
                    [contextManager.compressedContext EXCEPT
                        !.taskGoal = contextManager'.currentContext.userMessage]]_vars

\* startNewRequest has been called on a Context Manager that holds a session
\* log, discovered files, read and failed paths and recent results.
RequestStartedOverEarlierFindings ==
    /\ contextManager.currentContext.userMessage # ""
    /\ contextManager.currentContext.toolExecutions = <<>>
    /\ contextManager.compressedContext.taskGoal = contextManager.currentContext.userMessage
    /\ Len(contextManager.sessionContext) > 0
    /\ Len(contextManager.compressedContext.filesFound) > 0
    /\ Len(contextManager.compressedContext.filesFailed) > 0
    /\ Len(contextManager.compressedContext.recentToolResults) > 0

(***************************************************************************)
(* C21: each addToolExecution appends exactly that execution to the Turn's *)
(* tool-execution log, leaving the earlier entries as they were, makes the *)
(* last entry of recentToolResults an entry for the same tool with the     *)
(* same success flag, and leaves the session log unchanged.                *)
(***************************************************************************)
ToolExecutionIsAppended ==
    [][LET log    == contextManager.currentContext.toolExecutions
           log2   == contextManager'.currentContext.toolExecutions
           recent == contextManager'.compressedContext.recentToolResults
       IN (log2 # log /\ log2 # <<>>)
          => /\ \E e \in Executions :
                    log2 = Append(log, [tool |-> e.tool, args |-> e.args,
                                        result |-> e.result])
             /\ Len(recent) > 0
             /\ recent[Len(recent)].tool = log2[Len(log2)].tool
             /\ recent[Len(recent)].success = log2[Len(log2)].result.success
             /\ contextManager'.sessionContext = contextManager.sessionContext]_vars

\* A failed execution has been recorded as the only entry of a new Turn's
\* log while recentToolResults still holds an entry of the Turn before, and
\* the session log is not empty.
FailureAppendedAfterEviction ==
    LET log    == contextManager.currentContext.toolExecutions
        recent == contextManager.compressedContext.recentToolResults
    IN /\ Len(log) = 1
       /\ Len(recent) = RecentResultsCap
       /\ ~log[1].result.success
       /\ recent[Len(recent)].tool = log[1].tool
       /\ ~recent[Len(recent)].success
       /\ recent[1].tool # log[1].tool
       /\ Len(contextManager.sessionContext) > 0

(***************************************************************************)
(* C22: analyzeTaskComplexity applies its rules in order.  It answers      *)
(* complex whenever a prior tool call is Write or Edit or the message      *)
(* contains a complex keyword, a simple keyword in the message             *)
(* notwithstanding; otherwise it answers simple when the message contains  *)
(* a simple keyword.  Keywords are looked for in the lower-cased message.  *)
(***************************************************************************)
ComplexRuleComesFirst ==
    (selection.call = "selectModel" /\ selection.complexity # "none")
    => LET lower   == toLowerCase(selection.message)
           complex == \/ \E i \in DOMAIN selection.toolCalls :
                            /\ selection.toolCalls[i].function.defined
                            /\ selection.toolCalls[i].function.name \in {"Write", "Edit"}
                      \/ \E k \in complexKeywords : includes(lower, k)
           simple  == \E k \in simpleKeywords : includes(lower, k)
       IN /\ complex => selection.complexity = "complex"
          /\ (~complex /\ simple) => selection.complexity = "simple"

\* A message with a simple and a complex keyword and no modifying tool call
\* has been classified.
BothKeywordsClassified ==
    /\ selection.call = "selectModel"
    /\ selection.complexity = "complex"
    /\ hasSimpleKeyword(selection.message)
    /\ hasComplexKeyword(selection.message)
    /\ ~hasCodeModification(selection.toolCalls)

(***************************************************************************)
(* C23 as stated: a message with neither a complex nor a simple keyword,   *)
(* classified with an empty list of prior tool calls, is decided by the    *)
(* length heuristic: complex if it is longer than 200 characters or spans  *)
(* more than 5 lines, simple otherwise.                                    *)
(***************************************************************************)
NoKeywordDecidedByLength ==
    (/\ selection.call = "selectModel"
     /\ selection.complexity # "none"
     /\ selection.toolCalls = <<>>
     /\ ~\E k \in complexKeywords \cup simpleKeywords :
            includes(toLowerCase(selection.message), k))
    => selection.complexity =
          (IF Len(selection.message) > LongMessage \/ LineCount(selection.message) > ManyLines
           THEN "complex" ELSE "simple")

(***************************************************************************)
(* C24: selectModel returns the user's preference whenever one is given,   *)
(* whatever the message, the prior tool calls and the experimental flag;   *)
(* without a preference it returns the entry of the table for the          *)
(* complexity of the message and the flag: the heavy or light primary      *)
(* model when stable, the heavy or light experimental model otherwise.     *)
(***************************************************************************)
PreferenceWinsElseTable ==
    (selection.call = "selectModel" /\ selection.selected # "none")
    => IF selection.userPreference # NoPreference
       THEN selection.selected = selection.userPreference
       ELSE LET complexity ==
                    analyzeTaskComplexity(selection.message, selection.toolCalls)
            IN selection.selected =
                 (CASE complexity = "complex" /\ ~selection.useExperimental ->
                         "openai/gpt-oss-120b"
                    [] complexity = "simple" /\ ~selection.useExperimental ->
                         "openai/gpt-oss-20b"
                    [] complexity = "complex" /\ selection.useExperimental ->
                         "meta-llama/llama-4-maverick-17b-128e-instruct"
                    [] complexity = "simple" /\ selection.useExperimental ->
                         "meta-llama/llama-4-scout-17b-16e-instruct")

\* A preference has been returned for a complex message with a Write among
\* the prior tool calls and the experimental flag set.
PreferenceReturnedForComplexTask ==
    /\ selection.call = "selectModel"
    /\ selection.userPreference # NoPreference
    /\ selection.selected = selection.userPreference
    /\ selection.useExperimental
    /\ hasComplexKeyword(selection.message)
    /\ hasCodeModification(selection.toolCalls)

(***************************************************************************)
(* C25 as stated: when the assistant is started with a specific model id   *)
(* (--model X, X not 'auto'), the client whose model the selection policy  *)
(* governs uses X, whatever the auto-model and experimental options are.   *)
(***************************************************************************)
SpecificModelIsUsed ==
    (/\ selection.call = "startChat"
     /\ selection.heavyModel # "none"
     /\ selection.model # "auto")
    => selection.heavyModel = selection.model

(***************************************************************************)
(* C26 as stated: for every sequence D of well-formed directives (values   *)
(* free of their own delimiting quote; empty values, values with '>' and   *)
(* values with the other quote character included), parseToolCommands of   *)
(* the rendering of D returns the directives of D in order, each with its  *)
(* attribute mapping.                                                      *)
(***************************************************************************)
ParseInvertsRender ==
    (parsing.call = "render" /\ "parse" \in parsing.done)
    => parsing.tools = [i \in 1..Len(parsing.directives) |-> Mapping(parsing.directives[i])]

(***************************************************************************)
(* C27 as stated: removeToolCommands is idempotent; applied to its own     *)
(* result it returns that result.                                          *)
(***************************************************************************)
RemoveIsIdempotent ==
    "removeAgain" \in parsing.done => parsing.cleanAgain = parsing.clean

(***************************************************************************)
(* C28 as stated: for every text, unterminated and malformed tags          *)
(* included, the result of removeToolCommands has no occurrence of the     *)
(* marker '<tool'.                                                         *)
(***************************************************************************)
RemoveLeavesNoMarker ==
    "remove" \in parsing.done => ~includes(parsing.clean, ToolMarker)

(***************************************************************************)
(* C29 as stated: on a text of whole tags and prose, parseToolCommands     *)
(* returns, in text order, exactly the invocations of the terminated tags  *)
(* that have a name; a nameless or unterminated tag yields none and adds   *)
(* nothing to the invocation of another tag.                               *)
(***************************************************************************)
OneInvocationPerNamedTag ==
    (/\ parsing.call = "text"
     /\ "parse" \in parsing.done
     /\ \A i \in DOMAIN parsing.pieces : parsing.pieces[i].kind # "fragment")
    => parsing.tools = NamedTags(parsing.pieces)

(***************************************************************************)
(* C30 as stated: in any Turn the main loop calls the active tier's model  *)
(* at most maxIterations (25) times, the pass that is re-run after a tier  *)
(* switch included.                                                        *)
(***************************************************************************)
MainLoopCallsWithinCeiling ==
    \A t \in TurnIds : turns[t].mainCalls <= maxIterations

(***************************************************************************)
(* C30, amended: the main loop calls a model at most maxIterations + 1     *)
(* times in a Turn: once per value of iterationCount, and once more for    *)
(* the one pass that is re-run, without an increment, when the tier        *)
(* switches from light to heavy.                                           *)
(***************************************************************************)
MainLoopCallsWithinCeilingPlusRerun ==
    \A t \in TurnIds :
        /\ turns[t].mainCalls <= maxIterations + 1
        /\ turns[t].pc # "idle" =>
              turns[t].mainCalls <= turns[t].iterationCount
                                        + (IF turns[t].useLightModel THEN 1 ELSE 2)

\* The call after the last value of iterationCount, in a Turn that re-ran a
\* pass on the heavy tier.
CeilingReachedAfterRerun ==
    \E t \in TurnIds :
        /\ turns[t].pc = "chat"
        /\ turns[t].iterationCount = maxIterations - 1
        /\ turns[t].mainCalls = maxIterations + 1

(***************************************************************************)
(* C31: eviction is first in, first out.  After any sequence of calls      *)
(* since construction or the last clear, filesRead is the last min(n, 10)  *)
(* of the n paths read with success, filesFailed the last min(m, 5) of the *)
(* m paths whose read failed, and recentToolResults the entries of the     *)
(* last min(k, 2) of the k tool executions, each in execution order.       *)
(***************************************************************************)
EvictionIsFifo ==
    LET cc == contextManager.compressedContext
        executions == ExecutionsOf(cmCalls)
    IN /\ cc.filesRead = SliceLast(PathsOf(SuccessfulReads(cmCalls)), FilesReadCap)
       /\ cc.filesFailed = SliceLast(PathsOf(FailedReads(cmCalls)), FilesFailedCap)
       /\ cc.recentToolResults =
            SliceLast([i \in 1..Len(executions) |->
                          [tool |-> executions[i].tool,
                           success |-> executions[i].result.success,
                           summary |-> createCompressedSummary(executions[i].tool,
                                                               executions[i].args,
                                                               executions[i].result)]],
                      RecentResultsCap)

\* More paths were read with success than filesRead keeps: the oldest path
\* has been evicted, and so have all but the last two tool results.
OldestReadEvicted ==
    /\ Len(SuccessfulReads(cmCalls)) > FilesReadCap
    /\ Len(ExecutionsOf(cmCalls)) > RecentResultsCap
    /\ Len(contextManager.compressedContext.filesRead) = FilesReadCap
    /\ Len(contextManager.compressedContext.recentToolResults) = RecentResultsCap

(***************************************************************************)
(* C32: a successful Bash or Glob execution replaces filesFound by at most *)
(* the first 15 paths of its result, whatever filesFound held; a failed    *)
(* Bash or Glob execution, and every execution of another tool, leaves     *)
(* filesFound as it was.  (The paths of a Bash result are the lines of its *)
(* output that name a source file.)                                        *)
(***************************************************************************)
DiscoveryReplacesFilesFound ==
    [][\A e \in Executions :
          (contextManager'.currentContext.toolExecutions =
              Append(contextManager.currentContext.toolExecutions,
                     [tool |-> e.tool, args |-> e.args, result |-> e.result]))
          => LET found == contextManager'.compressedContext.filesFound
                 paths == IF e.tool = "Bash" THEN FilterSourceLines(e.result.lines)
                          ELSE e.result.files
             IN IF e.tool \in {"Bash", "Glob"} /\ e.result.success
                THEN /\ Len(found) <= FilesFoundCap
                     /\ found = SliceFirst(paths, FilesFoundCap)
                ELSE found = contextManager.compressedContext.filesFound]_vars

\* A full list of found files was replaced by the empty result of a later
\* successful discovery.
FoundFilesReplacedByEmptyResult ==
    LET log == contextManager.currentContext.toolExecutions
    IN /\ Len(log) = 2
       /\ log[1].tool = "Glob" /\ log[1].result.success
       /\ Len(log[1].result.files) > FilesFoundCap
       /\ log[2].tool = "Bash" /\ log[2].result.success
       /\ FilterSourceLines(log[2].result.lines) = <<>>
       /\ contextManager.compressedContext.filesFound = <<>>

(***************************************************************************)
(* C33: the clear command is a full reset.  After it the Context Manager   *)
(* (session log, current request, compressed view) equals a newly          *)
(* constructed one and each client's history is the system prompt alone;   *)
(* the clear command applied to that state gives the same state.           *)
(***************************************************************************)
ClearIsFullReset ==
    [][ClearCommand =>
        LET once  == [contextManager |-> contextManager',
                      lightClient |-> session'.lightClient,
                      heavyClient |-> session'.heavyClient]
            twice == clearCommand(once.contextManager, once.lightClient, once.heavyClient)
        IN /\ once.contextManager = NewContextManager
           /\ once.lightClient = <<"system">>
           /\ once.heavyClient = <<"system">>
           /\ twice = once]_vars

\* The clear command has run on a session that had a logged message, a
\* recorded tool execution and a conversation in each client.
ClearedAfterUse ==
    /\ session.discarded
    /\ contextManager = NewContextManager
    /\ \A c \in ClientNames : session[c] = <<"system">>

(***************************************************************************)
(* C34: while a Turn is between its startNewRequest and its end, the       *)
(* tool-execution log only grows: no step taken while the Turn is          *)
(* suspended, such as the handling of another message or of the clear      *)
(* command, removes or resets an execution the Turn has recorded.          *)
(***************************************************************************)
TurnLogOnlyGrows ==
    [][(\E t \in TurnIds : turns[t].pc # "idle" /\ turns'[t].pc # "idle")
       => LET log   == contextManager.currentContext.toolExecutions
              after == contextManager'.currentContext.toolExecutions
          IN /\ Len(log) <= Len(after)
             /\ SubSeq(after, 1, Len(log)) = log]_vars

(***************************************************************************)
(* C35: the tier only moves from light to heavy within a Turn.  A Turn     *)
(* starts on the light tier and makes its first main-loop call on the      *)
(* light client; every main-loop call goes to the client of the tier the   *)
(* Turn is on; and a Turn on the heavy tier stays on it until it ends.     *)
(***************************************************************************)
TierNeverGoesBackToLight ==
    /\ [](\A t \in TurnIds :
            /\ turns[t].pc = "plan" => turns[t].useLightModel
            /\ turns[t].pc = "chat" =>
                    /\ turns[t].call = IF turns[t].useLightModel THEN "light" ELSE "heavy"
                    /\ turns[t].mainCalls = 1 => turns[t].call = "light")
    /\ [][\A t \in TurnIds :
            (turns[t].pc # "idle" /\ ~turns[t].useLightModel /\ turns'[t].pc # "idle")
            => ~turns'[t].useLightModel]_vars

\* A Turn that switched to the heavy tier is at a later main-loop call, after
\* a full iteration on the heavy tier, and the call is on the heavy client.
LaterCallStaysOnHeavyTier ==
    \E t \in TurnIds :
        /\ turns[t].pc = "chat"
        /\ ~turns[t].useLightModel
        /\ turns[t].call = "heavy"
        /\ turns[t].switchCause = "none"
        /\ turns[t].userMessage = ToolResultsRequest

(***************************************************************************)
(* C36: whatever earlier Turns did, a later user message starts a Turn     *)
(* that reaches its first light-tier model call: in no state the Context   *)
(* Manager can be brought to does the light view fail to build for the     *)
(* Turn a new message starts.                                              *)
(***************************************************************************)
LaterTurnReachesLightCall ==
    \A m \in UserTexts :
        LET started == startNewRequest(addUserMessage(contextManager, m), m)
            first   == LoopHead([IdleTurn EXCEPT !.pc = "plan", !.userMessage = m], started)
        IN first.pc = "chat" /\ first.call = "light"

(***************************************************************************)
(* C37: every non-null response the main loop receives is appended to the  *)
(* session log, once, when it is received, the light-tier response that    *)
(* makes the loop switch to the heavy tier included.                       *)
(***************************************************************************)
EveryResponseIsLogged ==
    [][\A t \in TurnIds :
          (/\ turns[t].pc = "chat"
           /\ turns'[t] # turns[t]
           /\ turns'[t].outcome \notin {"provider error", "null"})
          => contextManager'.sessionContext =
                Append(contextManager.sessionContext,
                       [type |-> "assistant", content |-> "reasoning"])]_vars

(***************************************************************************)
(* C38: the light view depends only on a bounded slice of the calls made   *)
(* since construction or the last clear.  Each section of the view, and    *)
(* whether building the view throws, is what a new Context Manager gives   *)
(* on which only that part of the slice was recorded: the latest           *)
(* startNewRequest for the task, the latest successful Bash or Glob for    *)
(* the found files, the last 5 successful reads, the last 3 failed reads,  *)
(* the last 2 executions.  So two histories that agree on the slice give   *)
(* the same view, whatever else they and the session logs hold.            *)
(***************************************************************************)
LightViewDependsOnSliceOnly ==
    LET view      == getCompressedContext(contextManager)
        task      == getCompressedContext(Replay(SliceLast(StartsOf(cmCalls), 1)))
        found     == getCompressedContext(Replay(SliceLast(DiscoveriesOf(cmCalls), 1)))
        readOnly  == Replay(SliceLast(SuccessfulReads(cmCalls), ShownRead))
        failOnly  == Replay(SliceLast(FailedReads(cmCalls), ShownFailed))
        results   == getCompressedContext(
                        Replay(SliceLast(ExecutionsOf(cmCalls), RecentResultsCap)))
    IN /\ view.task = task.task
       /\ view.total = found.total
       /\ view.files = found.files
       /\ view.read = getCompressedContext(readOnly).read
       /\ view.failed = getCompressedContext(failOnly).failed
       /\ view.results = results.results
       /\ getCompressedContextThrows(contextManager)
            = (getCompressedContextThrows(readOnly) \/ getCompressedContextThrows(failOnly))

\* The calls made hold more than the slice: more successful reads and more
\* failed reads than the view shows, a listing longer than the view shows,
\* and a message in the session log.
CallsExceedSlice ==
    /\ Len(SuccessfulReads(cmCalls)) > ShownRead
    /\ Len(FailedReads(cmCalls)) > ShownFailed
    /\ Len(DiscoveriesOf(cmCalls)) > 0
    /\ Len(contextManager.compressedContext.filesFound) > ShownFound
    /\ Len(contextManager.sessionContext) > 0

(***************************************************************************)
(* C39: a client's history always holds one system message, the first,     *)
(* and after it user and assistant messages in strict alternation,         *)
(* starting with a user message.                                           *)
(***************************************************************************)
ClientHistoryAlternates ==
    \A c \in ClientNames :
        LET history == session[c]
        IN /\ Len(history) >= 1
           /\ history[1] = "system"
           /\ \A i \in 2..Len(history) :
                history[i] = IF i % 2 = 0 THEN "user" ELSE "assistant"

====
